---- MODULE Spec2Model ----
(***************************************************************************)
(* Document tree maintenance of the Enfield world builder: the flat        *)
(* document collection kept by the API service (services/documents.ts)     *)
(* and the drag-and-drop / move / delete handlers of the Sidebar           *)
(* components that rearrange it.                                           *)
(***************************************************************************)
EXTENDS Integers, Sequences, FiniteSets, TLC

VARIABLES docs, expandedIds, sidebar, nextId, last,
          cache, mutations, searchQuery, fn, creating, editor

vars == <<docs, expandedIds, sidebar, nextId, last, cache, mutations, searchQuery, fn,
          creating, editor>>

\* the client's copy of the list while requests are in flight, the reorder
\* mutations in flight, the text of the search box, the utility call made, the
\* createDocument calls running on the server, the DocumentEdit page
aux == <<cache, mutations, searchQuery, fn, creating, editor>>

(* ---------------------------- bounds ----------------------------------- *)

\* number of documents in the collections the drags start from
MaxDocs == 3
\* largest order value of a document in an initial collection
MaxOrder == 1
\* number of createDocument calls in a history
MaxCreate == 3
\* number of reorder mutations started while requests are in flight
MaxMutations == 2
\* number of reorder mutations with a failing request
MaxFailures == 1
\* number of createDocument calls the server runs at the same time
MaxRequests == 2
MaxEdits == 3
MaxNavigations == 1

(* ------------------------ values of the fields -------------------------- *)

\* parentId null / undefined: a root-level document
Null == 0
\* the order field is missing (undefined)
NoOrder == 0 - 1
\* a key that an UpdateDocumentDto does not carry
Absent == 0 - 2
\* sortDocuments: a missing order sorts as 999999
FallbackOrder == 999999
\* lib/documentTree: a missing order sorts as Number.MAX_SAFE_INTEGER (above every
\* order; written as the largest integer the checker represents)
MaxSafeInteger == 2147483647

Ids == 1..MaxDocs

\* a parentId that names a document which is not (or no longer) in the collection
GoneId == 99

\* no search text, no reorder mutation in flight, no utility call made
NoQuery == <<>>

NoCall == [op |-> "none", args |-> <<>>, result |-> <<>>]

\* a timer that is not set
NoTimer == [set |-> FALSE, typedIn |-> Null, at |-> 0]

\* no DocumentEdit page is mounted
NoEditor == [id |-> Null, isSaving |-> FALSE, titleTimer |-> NoTimer, contentTimer |-> NoTimer,
             updates |-> <<>>, clock |-> 0, navigations |-> 0]

AuxInit ==
  /\ cache = <<>>
  /\ mutations = <<>>
  /\ searchQuery = NoQuery
  /\ fn = NoCall
  /\ creating = <<>>
  /\ editor = NoEditor

(* ------------------------- the flat collection -------------------------- *)

IdsOf(ds) == {ds[i].id : i \in 1..Len(ds)}

\* documents.find((doc) => doc._id === id)
FindDoc(ds, id) == ds[CHOOSE i \in 1..Len(ds) : ds[i].id = id /\ \A j \in 1..(i-1) : ds[j].id # id]

ParentOf(ds, id) == IF id \in IdsOf(ds) THEN FindDoc(ds, id).parentId ELSE Null

RootIds(ds) == {ds[i].id : i \in {j \in 1..Len(ds) : ds[j].parentId = Null}}

RECURSIVE AncestorsWalk(_, _, _)
\* ids met when following parentId upward from id, stopping at a revisit
AncestorsWalk(ds, id, seen) ==
  LET p == ParentOf(ds, id)
  IN IF p = Null \/ p \in seen THEN seen
     ELSE AncestorsWalk(ds, p, seen \cup {p})

\* the parentId chain of id: every id reached by following parentId upward
ParentChain(ds, id) == AncestorsWalk(ds, id, {})

\* no document's id appears in its own parentId chain
Acyclic(ds) == \A id \in IdsOf(ds) : id \notin ParentChain(ds, id)

\* the sibling group of parent p
Group(ds, p) == {ds[i] : i \in {j \in 1..Len(ds) : ds[j].parentId = p}}

(* ----------------------- Sidebar.tsx (current) -------------------------- *)

\* a.order ?? 999999
OrderKey(d) == IF d.order = NoOrder THEN FallbackOrder ELSE d.order

\* insert d behind every element that does not sort after it (stable sort)
InsertByOrder(sorted, d) ==
  LET k == Cardinality({i \in 1..Len(sorted) : OrderKey(sorted[i]) <= OrderKey(d)})
  IN SubSeq(sorted, 1, k) \o <<d>> \o SubSeq(sorted, k + 1, Len(sorted))

RECURSIVE sortDocuments(_)
\* [...docs].sort((a, b) => orderA - orderB): ascending order, ties keep array position
sortDocuments(ds) ==
  IF ds = <<>> THEN <<>>
  ELSE InsertByOrder(sortDocuments(SubSeq(ds, 1, Len(ds) - 1)), ds[Len(ds)])

RECURSIVE isDescendantWalk(_, _, _, _)
\* the while loop of isDescendant; "hang" when the walk revisits a document
isDescendantWalk(ds, current, potentialAncestorId, seen) ==
  IF current \notin IdsOf(ds) THEN "false"
  ELSE LET p == FindDoc(ds, current).parentId
       IN IF p = potentialAncestorId THEN "true"
          ELSE IF p = Null THEN "false"
          ELSE IF p \in seen THEN "hang"
          ELSE isDescendantWalk(ds, p, potentialAncestorId, seen \cup {p})

\* an ancestor check that looks at the direct parent only
isDescendant_ParentOnly(ds, potentialDescendantId, potentialAncestorId) ==
  IF potentialDescendantId = Null \/ potentialDescendantId \notin IdsOf(ds) THEN "false"
  ELSE IF FindDoc(ds, potentialDescendantId).parentId = potentialAncestorId THEN "true"
  ELSE "false"

isDescendant(ds, potentialDescendantId, potentialAncestorId) ==
  IF potentialDescendantId = Null THEN "false"
  ELSE isDescendantWalk(ds, potentialDescendantId, potentialAncestorId, {potentialDescendantId})

\* getSiblings: the documents of parent p, sorted
getSiblings(ds, p) == sortDocuments(SelectSeq(ds, LAMBDA d : d.parentId = p))

WithoutDoc(seq, id) == SelectSeq(seq, LAMBDA d : d.id # id)

\* splice(index, 0, d): the index is clamped to the length
Splice(seq, index, d) ==
  LET k == IF index > Len(seq) THEN Len(seq) ELSE index
  IN SubSeq(seq, 1, k) \o <<d>> \o SubSeq(seq, k + 1, Len(seq))

NoUpdates == [i \in {} |-> [parentId |-> Absent, order |-> Absent]]

\* queueUpdate: updatesMap.set(id, { ...existing, ...data })
queueUpdate(updatesMap, id, data) ==
  LET existing == IF id \in DOMAIN updatesMap THEN updatesMap[id]
                  ELSE [parentId |-> Absent, order |-> Absent]
      merged == [parentId |-> IF data.parentId # Absent THEN data.parentId ELSE existing.parentId,
                 order |-> IF data.order # Absent THEN data.order ELSE existing.order]
  IN [i \in (DOMAIN updatesMap) \cup {id} |-> IF i = id THEN merged ELSE updatesMap[i]]

\* a reindexing that renumbers the dragged document only
reindexData_DraggedOnly(doc, idx, parentId, draggableId) ==
  IF doc.id = draggableId THEN [parentId |-> parentId, order |-> idx]
  ELSE [parentId |-> Absent, order |-> Absent]

\* a reindexing that sends an update for every sibling, changed or not
reindexData_Always(doc, idx, parentId, draggableId) ==
  IF doc.id = draggableId THEN [parentId |-> parentId, order |-> idx]
  ELSE [parentId |-> Absent, order |-> idx]

\* the body of siblings.forEach in reindexSiblings, for the document at index idx
reindexData(doc, idx, parentId, draggableId) ==
  IF doc.id = draggableId THEN [parentId |-> parentId, order |-> idx]
  ELSE IF doc.order # idx THEN [parentId |-> Absent, order |-> idx]
  ELSE [parentId |-> Absent, order |-> Absent]

RECURSIVE reindexFrom(_, _, _, _, _)
reindexFrom(siblings, n, parentId, draggableId, updatesMap) ==
  IF n > Len(siblings) THEN updatesMap
  ELSE LET data == reindexData(siblings[n], n - 1, parentId, draggableId)
       IN reindexFrom(siblings, n + 1, parentId, draggableId,
                      IF data.parentId = Absent /\ data.order = Absent THEN updatesMap
                      ELSE queueUpdate(updatesMap, siblings[n].id, data))

\* reindexSiblings: queue an update for every sibling whose index is not its order
reindexSiblings(siblings, parentId, draggableId, updatesMap) ==
  reindexFrom(siblings, 1, parentId, draggableId, updatesMap)

\* updateDocument for every queued update, then the refetch of the list
ApplyUpdates(ds, updates) ==
  [i \in 1..Len(ds) |->
     IF ds[i].id \in DOMAIN updates
     THEN [ds[i] EXCEPT !.parentId = IF updates[ds[i].id].parentId # Absent
                                      THEN updates[ds[i].id].parentId ELSE @,
                        !.order = IF updates[ds[i].id].order # Absent
                                  THEN updates[ds[i].id].order ELSE @]
     ELSE ds[i]]

(* ------------------- services/documents.ts (API) ------------------------ *)

\* getAllDocuments: order: doc.order ?? 0 (parentId || null is Null already)
getAllDocuments(store) ==
  [i \in 1..Len(store) |-> [store[i] EXCEPT !.order = IF @ = NoOrder THEN 0 ELSE @]]

(* ------------------- Sidebar.tsx (current): search ---------------------- *)

\* the text of a title; the title field holds the collation rank of the text
\* ("" < "a" < "Ab" < "b" < "c" under localeCompare)
TitleText(t) ==
  CASE t = 0 -> <<>>
    [] t = 1 -> <<"a">>
    [] t = 2 -> <<"A", "b">>
    [] t = 3 -> <<"b">>
    [] OTHER -> <<"c">>

Untitled == <<"U", "n", "t", "i", "t", "l", "e", "d">>

LowerChar(c) ==
  CASE c = "A" -> "a"
    [] c = "B" -> "b"
    [] c = "U" -> "u"
    [] OTHER -> c

\* String.prototype.toLowerCase
toLowerCase(str) == [i \in 1..Len(str) |-> LowerChar(str[i])]

RECURSIVE trimStart(_)
trimStart(str) ==
  IF str # <<>> /\ str[1] = " " THEN trimStart(Tail(str)) ELSE str

RECURSIVE trimEnd(_)
trimEnd(str) ==
  IF str # <<>> /\ str[Len(str)] = " " THEN trimEnd(SubSeq(str, 1, Len(str) - 1)) ELSE str

\* String.prototype.trim
trim(str) == trimEnd(trimStart(str))

\* String.prototype.includes
includes(str, part) ==
  \E i \in 0..(Len(str) - Len(part)) : SubSeq(str, i + 1, i + Len(part)) = part


\* searchQuery.toLowerCase(): the query is not trimmed
normalizedQuery_NoTrim(q) == toLowerCase(q)

\* searchQuery.trim().toLowerCase()
normalizedQuery(q) == toLowerCase(trim(q))

\* (doc.title || "Untitled").toLowerCase().includes(normalizedQuery)
titleMatches(d, nq) ==
  includes(toLowerCase(IF TitleText(d.title) = <<>> THEN Untitled ELSE TitleText(d.title)), nq)

RECURSIVE includeAncestors(_, _, _)
\* includeAncestors(id): the id joins matches, then its parent, up to an id
\* that is in matches already
includeAncestors(ds, matches, id) ==
  IF id = Null \/ id \in matches THEN matches
  ELSE includeAncestors(ds, matches \cup {id}, ParentOf(ds, id))

RECURSIVE includeAll(_, _, _, _)
\* Array.from(matches).forEach((id) => includeAncestors(parent of id))
includeAll(ds, found, n, matches) ==
  IF n > Len(found) THEN matches
  ELSE includeAll(ds, found, n + 1, includeAncestors(ds, matches, ParentOf(ds, found[n].id)))

\* matchSet === null: no filter
NoFilter == [isNull |-> TRUE, ids |-> {}]

\* matchSet (useMemo): null without a query, else the matching documents and
\* the ancestors includeAncestors adds
matchSet(ds, q) ==
  LET nq == normalizedQuery(q)
      found == SelectSeq(ds, LAMBDA d : titleMatches(d, nq))
  IN IF nq = <<>> THEN NoFilter
     ELSE [isNull |-> FALSE,
           ids |-> includeAll(ds, found, 1, {found[i].id : i \in 1..Len(found)})]

RECURSIVE expandWalk(_, _, _, _)
\* while (parentId) { next.add(parentId); parentId = lookup.get(parentId)?.parentId ?? null }
\* seen holds the ids this walk has added: meeting one again, the loop never ends
expandWalk(ds, parentId, seen, next) ==
  IF parentId = Null THEN [hang |-> FALSE, next |-> next]
  ELSE IF parentId \in seen THEN [hang |-> TRUE, next |-> next]
  ELSE expandWalk(ds, ParentOf(ds, parentId), seen \cup {parentId}, next \cup {parentId})

\* useEffect on [matchSet, documents]: the ancestors of every id of matchSet
\* are added to expandedIds
expansionEffect(ds, ms, expanded) ==
  LET walks == {expandWalk(ds, ParentOf(ds, id), {}, {}) : id \in ms.ids}
  IN IF ms.isNull \/ ms.ids = {} THEN [hang |-> FALSE, next |-> expanded]
     ELSE [hang |-> \E w \in walks : w.hang,
           next |-> expanded \cup UNION {w.next : w \in walks}]

\* a SidebarItem exists for id while matchSet filters the lists
RECURSIVE isRenderedFiltered(_, _, _, _, _)
isRenderedFiltered(ds, expanded, ms, id, seen) ==
  IF id \notin IdsOf(ds) \/ (~ms.isNull /\ id \notin ms.ids) THEN FALSE
  ELSE LET p == FindDoc(ds, id).parentId
       IN IF p = Null THEN TRUE
          ELSE IF p \in seen \/ p \notin expanded THEN FALSE
          ELSE isRenderedFiltered(ds, expanded, ms, p, seen \cup {p})

RenderedFiltered(ds, expanded, ms, id) == isRenderedFiltered(ds, expanded, ms, id, {id})


\* renderChildren: the siblings of parentId that get a SidebarItem
visibleSiblings(ds, ms, parentId) ==
  IF ms.isNull THEN getSiblings(ds, parentId)
  ELSE SelectSeq(getSiblings(ds, parentId), LAMBDA d : d.id \in ms.ids)

noSearchResults(ms) == ~ms.isNull /\ ms.ids = {}

noDocuments(ds) == Len(ds) = 0

\* the body of the Sidebar: whether the root list is rendered, and which of
\* the two empty-state messages (none while the new-page form is open)
sidebarBody(ds, ms, isCreating) ==
  [list |-> ~(noSearchResults(ms) \/ (noDocuments(ds) /\ ~isCreating)),
   message |-> IF noSearchResults(ms) /\ ~isCreating THEN "No pages found"
               ELSE IF noDocuments(ds) /\ ~isCreating /\ ~noSearchResults(ms) THEN "No pages yet"
               ELSE "none"]

(* --------------------- what the Sidebar renders ------------------------- *)

RECURSIVE isRendered(_, _, _, _)
\* a SidebarItem exists for id: a root, or a child of a rendered, expanded item
isRendered(ds, expanded, id, seen) ==
  IF id \notin IdsOf(ds) THEN FALSE
  ELSE LET p == FindDoc(ds, id).parentId
       IN IF p = Null THEN TRUE
          ELSE IF p \in seen \/ p \notin expanded THEN FALSE
          ELSE isRendered(ds, expanded, p, seen \cup {p})

Rendered(ds, expanded, id) == isRendered(ds, expanded, id, {id})

\* the droppable list:<p> exists (renderChildren(p)); list:root always does
ListRendered(ds, expanded, p) ==
  p = Null \/ (Rendered(ds, expanded, p) /\ p \in expanded)

\* index of the Draggable id inside its list (renderChildren: visibleSiblings.map)
IndexIn(seq, id) == (CHOOSE i \in 1..Len(seq) : seq[i].id = id) - 1

(* ----------------- Sidebar.tsx (current): handleDragEnd ----------------- *)

\* a nest drop that puts the dragged document in front of the children
pushMoving_Front(destSiblings, doc) == <<doc>> \o destSiblings

\* destSiblings.push({ ...movingDoc, parentId: destParentId })
pushMoving(destSiblings, doc) == Append(destSiblings, doc)

\* the into:<id> branch of handleDragEnd
handleDragEndInto(documents, draggableId, sourceParentId, destParentId) ==
  LET movingDoc == FindDoc(documents, draggableId)
      desc == isDescendant(documents, destParentId, draggableId)
      destSiblings == pushMoving(WithoutDoc(getSiblings(documents, destParentId), draggableId),
                                 [movingDoc EXCEPT !.parentId = destParentId])
      u1 == reindexSiblings(destSiblings, destParentId, draggableId, NoUpdates)
      u2 == IF sourceParentId # destParentId
            THEN reindexSiblings(WithoutDoc(getSiblings(documents, sourceParentId), draggableId),
                                 sourceParentId, draggableId, u1)
            ELSE u1
  IN IF destParentId = Null \/ destParentId = draggableId
       THEN [outcome |-> "rejected", updates |-> NoUpdates, expand |-> Null]
     ELSE IF desc = "hang"
       THEN [outcome |-> "hang", updates |-> NoUpdates, expand |-> Null]
     ELSE IF desc = "true"
       THEN [outcome |-> "rejected", updates |-> NoUpdates, expand |-> Null]
     ELSE [outcome |-> IF DOMAIN u2 = {} THEN "empty" ELSE "accepted",
           updates |-> u2, expand |-> destParentId]

\* the list:<id> / list:root branch of handleDragEnd
handleDragEndList(documents, draggableId, sourceParentId, sourceIndex, destParentId, destIndex) ==
  LET movingDoc == FindDoc(documents, draggableId)
      desc == IF destParentId # Null
              THEN isDescendant(documents, destParentId, draggableId) ELSE "false"
      destSiblings == Splice(WithoutDoc(getSiblings(documents, destParentId), draggableId),
                             destIndex, [movingDoc EXCEPT !.parentId = destParentId])
      u1 == reindexSiblings(destSiblings, destParentId, draggableId, NoUpdates)
      u2 == IF destParentId # sourceParentId
            THEN reindexSiblings(WithoutDoc(getSiblings(documents, sourceParentId), draggableId),
                                 sourceParentId, draggableId, u1)
            ELSE u1
  IN IF destParentId = sourceParentId /\ destIndex = sourceIndex
       THEN [outcome |-> "noop", updates |-> NoUpdates, expand |-> Null]
     ELSE IF desc = "hang"
       THEN [outcome |-> "hang", updates |-> NoUpdates, expand |-> Null]
     ELSE IF desc = "true"
       THEN [outcome |-> "rejected", updates |-> NoUpdates, expand |-> Null]
     ELSE [outcome |-> IF DOMAIN u2 = {} THEN "empty" ELSE "accepted",
           updates |-> u2, expand |-> destParentId]

\* ensureExpanded(id)
ensureExpanded(expanded, id) == IF id = Null THEN expanded ELSE expanded \cup {id}

\* useEffect on [documents]: every root-level document is added to expandedIds
ExpandRoots(expanded, ds) == expanded \cup RootIds(ds)

\* the state left by one handleDragEnd call whose result is r
DragEndEffect(r, op, kind, draggableId, sourceParentId, sourceIndex, destParentId, destIndex, repeat) ==
  LET mutated == r.outcome = "accepted"
      stored == IF mutated THEN ApplyUpdates(docs, r.updates) ELSE docs
      exp1 == ensureExpanded(expandedIds, r.expand)
  IN /\ docs' = stored
     /\ expandedIds' = IF mutated THEN ExpandRoots(exp1, getAllDocuments(stored)) ELSE exp1
     /\ last' = [op |-> op, kind |-> kind, id |-> draggableId,
                 sourceParentId |-> sourceParentId, sourceIndex |-> sourceIndex,
                 destParentId |-> destParentId, destIndex |-> destIndex,
                 outcome |-> r.outcome, updates |-> r.updates, mutated |-> mutated,
                 before |-> docs, expandedBefore |-> expandedIds, repeat |-> repeat]
     /\ UNCHANGED <<sidebar, nextId>>
     /\ UNCHANGED aux

\* the gesture starts from the idle sidebar, or repeats the drop just accepted
GestureStarts(kind, draggableId, destParentId, destIndex, repeat) ==
  IF repeat
  THEN /\ last.op = "drag" /\ last.outcome = "accepted" /\ ~last.repeat
       /\ last.kind = kind /\ last.id = draggableId
       /\ last.destParentId = destParentId /\ last.destIndex = destIndex
  ELSE last.op = "none"

\* a drop of draggableId onto the row of destParentId (droppable into:<destParentId>);
\* the drops, createDocument and deleteDocument are taken while no filter is active
DropInto(draggableId, destParentId, repeat) ==
  LET documents == getAllDocuments(docs)
      sourceParentId == ParentOf(documents, draggableId)
      sourceIndex == IndexIn(getSiblings(documents, sourceParentId), draggableId)
  IN /\ sidebar = "current"
     /\ matchSet(documents, searchQuery).isNull
     /\ GestureStarts("into", draggableId, destParentId, 0, repeat)
     /\ Rendered(documents, expandedIds, draggableId)
     /\ Rendered(documents, expandedIds, destParentId)
     /\ DragEndEffect(handleDragEndInto(documents, draggableId, sourceParentId, destParentId),
                      "drag", "into", draggableId, sourceParentId, sourceIndex,
                      destParentId, 0, repeat)

\* a drop of draggableId into the child list of destParentId at destIndex
DropList(draggableId, destParentId, destIndex, repeat) ==
  LET documents == getAllDocuments(docs)
      sourceParentId == ParentOf(documents, draggableId)
      sourceIndex == IndexIn(getSiblings(documents, sourceParentId), draggableId)
      others == Len(WithoutDoc(getSiblings(documents, destParentId), draggableId))
  IN /\ sidebar = "current"
     /\ matchSet(documents, searchQuery).isNull
     /\ GestureStarts("list", draggableId, destParentId, destIndex, repeat)
     /\ Rendered(documents, expandedIds, draggableId)
     /\ ListRendered(documents, expandedIds, destParentId)
     /\ destIndex <= others
     /\ DragEndEffect(handleDragEndList(documents, draggableId, sourceParentId, sourceIndex,
                                        destParentId, destIndex),
                      "drag", "list", draggableId, sourceParentId, sourceIndex,
                      destParentId, destIndex, repeat)

\* the Draggables of the list of parent p while matchSet filters it
visibleList(ds, ms, p) ==
  IF ms.isNull THEN getSiblings(ds, p)
  ELSE SelectSeq(getSiblings(ds, p), LAMBDA d : d.id \in ms.ids)

\* a drop into the child list of destParentId while a query filters the lists:
\* source.index and destination.index count the displayed rows
DropListFiltered(draggableId, destParentId, destIndex) ==
  LET documents == getAllDocuments(docs)
      ms == matchSet(documents, searchQuery)
      sourceParentId == ParentOf(documents, draggableId)
      sourceIndex == IndexIn(visibleList(documents, ms, sourceParentId), draggableId)
      others == Len(WithoutDoc(visibleList(documents, ms, destParentId), draggableId))
  IN /\ sidebar = "current"
     /\ last.op = "none"
     /\ ~ms.isNull
     /\ RenderedFiltered(documents, expandedIds, ms, draggableId)
     /\ \/ destParentId = Null
        \/ (RenderedFiltered(documents, expandedIds, ms, destParentId)
              /\ destParentId \in expandedIds)
     /\ destIndex <= others
     /\ DragEndEffect(handleDragEndList(documents, draggableId, sourceParentId, sourceIndex,
                                        destParentId, destIndex),
                      "drag", "list", draggableId, sourceParentId, sourceIndex,
                      destParentId, destIndex, FALSE)

\* handleDragEnd with destination.droppableId = into:<destParentId>
DragEndInto(draggableId, destParentId) ==
  /\ last.op = "none"
  /\ DropInto(draggableId, destParentId, FALSE)

\* handleDragEnd with destination.droppableId = list:<destParentId> (list:root for Null)
DragEndList(draggableId, destParentId, destIndex) ==
  /\ last.op = "none"
  /\ DropList(draggableId, destParentId, destIndex, FALSE)

\* the user makes the drop that was just accepted once more
RepeatDragEnd ==
  /\ last.op = "drag"
  /\ IF last.kind = "into" THEN DropInto(last.id, last.destParentId, TRUE)
     ELSE DropList(last.id, last.destParentId, last.destIndex, TRUE)

NoOp == [op |-> "none", kind |-> "none", id |-> Null,
         sourceParentId |-> Null, sourceIndex |-> 0,
         destParentId |-> Null, destIndex |-> 0,
         outcome |-> "none", updates |-> NoUpdates, mutated |-> FALSE,
         before |-> <<>>, expandedBefore |-> {}, repeat |-> FALSE]

(* ------------------ lib/documentTree (tree utilities) ------------------- *)

\* a.title.localeCompare(b.title) <= 0; titles are modelled by their collation rank
TitleLeq(a, b) == a.title <= b.title

\* a.order ?? Number.MAX_SAFE_INTEGER
OrderKeyLib(d) == IF d.order = NoOrder THEN MaxSafeInteger ELSE d.order

InsertByOrderTitleLib(sorted, d) ==
  LET k == Cardinality({i \in 1..Len(sorted) :
                          \/ OrderKeyLib(sorted[i]) < OrderKeyLib(d)
                          \/ (OrderKeyLib(sorted[i]) = OrderKeyLib(d) /\ TitleLeq(sorted[i], d))})
  IN SubSeq(sorted, 1, k) \o <<d>> \o SubSeq(sorted, k + 1, Len(sorted))


\* a sort that compares the order only and leaves equal orders in array position
sortDocumentsLib_OrderOnly(ds) == sortDocuments(ds)

RECURSIVE sortDocumentsLib(_)
\* sortDocuments of lib/documentTree: by order, ties by title, then array position
sortDocumentsLib(ds) ==
  IF ds = <<>> THEN <<>>
  ELSE InsertByOrderTitleLib(sortDocumentsLib(SubSeq(ds, 1, Len(ds) - 1)), ds[Len(ds)])

RECURSIVE traverse(_, _, _, _)
\* traverse(currentId) of collectDescendantIds, from array index i on
traverse(ds, currentId, i, descendants) ==
  IF i > Len(ds) THEN descendants
  ELSE IF ds[i].parentId = currentId /\ ds[i].id \notin descendants
       THEN traverse(ds, currentId, i + 1,
                     traverse(ds, ds[i].id, 1, descendants \cup {ds[i].id}))
       ELSE traverse(ds, currentId, i + 1, descendants)

collectDescendantIds(ds, rootId) == traverse(ds, rootId, 1, {})

RECURSIVE buildDocumentTreeIds(_, _, _)
\* ids of the nodes of buildDocumentTree(documents, parentId): the documents
\* reached from parentId downward
buildDocumentTreeIds(ds, parentId, fuel) ==
  LET children == {d.id : d \in Group(ds, parentId)}
  IN IF fuel = 0 THEN children
     ELSE children \cup UNION {buildDocumentTreeIds(ds, c, fuel - 1) : c \in children}

(* ------------- lib/documentTree (map-based tree utilities) -------------- *)

\* a root test that accepts a missing parentId only
isRootMap_NullOnly(ds, d) == d.parentId = Null

\* map.forEach: a node goes to roots unless parentId && map.has(parentId)
isRootMap(ds, d) == ~(d.parentId # Null /\ d.parentId \in IdsOf(ds))

RECURSIVE MapNode(_, _)
\* the node of document d: { ...doc, children } with the children pushed in the
\* sequence of sortedDocs and sorted by sortChildren
MapNode(sortedDocs, d) ==
  LET pushed == SelectSeq(sortedDocs, LAMBDA c : c.parentId = d.id)
      children == sortDocuments(pushed)
  IN [id |-> d.id, parentId |-> d.parentId, order |-> d.order, title |-> d.title,
      children |-> [i \in 1..Len(children) |-> MapNode(sortedDocs, children[i])]]

\* buildDocumentTree(documents) of the map-based utility: sortChildren descends
\* from the roots only
buildDocumentTreeMap(ds) ==
  LET sortedDocs == sortDocuments(ds)
      roots == sortDocuments(SelectSeq(sortedDocs, LAMBDA d : isRootMap(ds, d)))
  IN [i \in 1..Len(roots) |-> MapNode(sortedDocs, roots[i])]

RECURSIVE flattenTreeMap(_)
\* flattenTree(nodes): every node followed by its flattened children
flattenTreeMap(nodes) ==
  IF nodes = <<>> THEN <<>>
  ELSE <<nodes[1]>> \o flattenTreeMap(nodes[1].children) \o flattenTreeMap(Tail(nodes))

\* handleConfirmExport: flattenTree(buildDocumentTree(allDocuments)).map(node => node._id)
exportOrder(ds) ==
  LET list == flattenTreeMap(buildDocumentTreeMap(ds))
  IN [i \in 1..Len(list) |-> list[i].id]

(* ------------ lib/documentTree (recursive tree utilities) --------------- *)

RECURSIVE buildDocumentTreeLib(_, _, _)
\* buildDocumentTree(documents, parentId); path holds the parentId arguments of
\* the calls on the stack: a child that is one of them recurses without end
\* (RangeError: Maximum call stack size exceeded)
buildDocumentTreeLib(ds, parentId, path) ==
  LET children == sortDocumentsLib(SelectSeq(ds, LAMBDA d : d.parentId = parentId))
      sub(i) == buildDocumentTreeLib(ds, children[i].id, path \cup {children[i].id})
  IN IF \E i \in 1..Len(children) : children[i].id \in path \/ sub(i).overflow
     THEN [overflow |-> TRUE, nodes |-> <<>>]
     ELSE [overflow |-> FALSE,
           nodes |-> [i \in 1..Len(children) |->
                        [document |-> children[i], children |-> sub(i).nodes]]]

RECURSIVE flattenTreeLib(_)
\* flattenTree(nodes) of the recursive utility: walk pushes node.document
flattenTreeLib(nodes) ==
  IF nodes = <<>> THEN <<>>
  ELSE <<nodes[1].document>> \o flattenTreeLib(nodes[1].children) \o flattenTreeLib(Tail(nodes))

(* ---------------- ExportPdfModal.tsx: collectDescendantIds -------------- *)

RECURSIVE visit(_, _, _)
\* visit(parentId): every child is added and visited, seen before or not
visit(ds, parentId, path) ==
  LET children == SelectSeq(ds, LAMBDA d : d.parentId = parentId)
      sub(i) == visit(ds, children[i].id, path \cup {children[i].id})
  IN IF \E i \in 1..Len(children) : children[i].id \in path \/ sub(i).overflow
     THEN [overflow |-> TRUE, ids |-> {}]
     ELSE [overflow |-> FALSE,
           ids |-> {children[i].id : i \in 1..Len(children)}
                     \cup UNION {sub(i).ids : i \in 1..Len(children)}]

collectDescendantIdsExport(ds, rootId) == visit(ds, rootId, {rootId})

(* ------------- MoveDocumentModal.tsx (used by the modal Sidebar) -------- *)

\* invalidIds: the document and its descendants
invalidIds(ds, documentId) == {documentId} \cup collectDescendantIds(ds, documentId)

\* options: the nodes of the tree that are not invalid
ModalOptions(ds, documentId) ==
  buildDocumentTreeIds(ds, Null, Len(ds)) \ invalidIds(ds, documentId)

(* ---------------- Sidebar.tsx (third variant, line 1301 on) ------------- *)

\* a.order ?? 0
OrderKeyThird(d) == IF d.order = NoOrder THEN 0 ELSE d.order

InsertByOrderTitle(sorted, d) ==
  LET k == Cardinality({i \in 1..Len(sorted) :
                          \/ OrderKeyThird(sorted[i]) < OrderKeyThird(d)
                          \/ (OrderKeyThird(sorted[i]) = OrderKeyThird(d) /\ TitleLeq(sorted[i], d))})
  IN SubSeq(sorted, 1, k) \o <<d>> \o SubSeq(sorted, k + 1, Len(sorted))

RECURSIVE sortDocumentsThird(_)
\* sortDocuments of the third variant: by order, equal orders by title
sortDocumentsThird(ds) ==
  IF ds = <<>> THEN <<>>
  ELSE InsertByOrderTitle(sortDocumentsThird(SubSeq(ds, 1, Len(ds) - 1)), ds[Len(ds)])

RECURSIVE getDescendantIdsLoop(_, _, _, _)
\* the while loop of getDescendantIds; more than Len(ds) + 1 pops mean that the
\* stack never empties (a parentId cycle below rootId)
getDescendantIdsLoop(ds, stack, descendants, pops) ==
  IF stack = <<>> THEN [hang |-> FALSE, ids |-> descendants]
  ELSE IF pops > Len(ds) + 1 THEN [hang |-> TRUE, ids |-> descendants]
  ELSE LET current == stack[Len(stack)]
           children == SelectSeq(ds, LAMBDA d : d.parentId = current)
       IN getDescendantIdsLoop(ds,
            SubSeq(stack, 1, Len(stack) - 1) \o [i \in 1..Len(children) |-> children[i].id],
            descendants \cup {children[i].id : i \in 1..Len(children)},
            pops + 1)

getDescendantIds(rootId, ds) == getDescendantIdsLoop(ds, <<rootId>>, {}, 1)

\* MoveDialog options: the documents that are neither the document nor below it
MoveDialogOptions(ds, currentDocumentId) ==
  IdsOf(ds) \ (getDescendantIds(currentDocumentId, ds).ids \cup {currentDocumentId})

\* the siblings shown under parent p by the third variant
getSiblingsThird(ds, p) == sortDocumentsThird(SelectSeq(ds, LAMBDA d : d.parentId = p))

RECURSIVE queueAll(_, _, _, _)
\* one api.updateDocument(doc._id, data) per sibling, data.order = idx
queueAll(siblings, n, parentId, updatesMap) ==
  IF n > Len(siblings) THEN updatesMap
  ELSE queueAll(siblings, n + 1, parentId,
                queueUpdate(updatesMap, siblings[n].id, [parentId |-> parentId, order |-> n - 1]))

\* handleDragEnd of the third variant; kind is "nest", "children" or "root"
handleDragEndThird(documents, draggableId, sourceParentId, sourceIndex, kind, destinationParentId, destIndex) ==
  LET movingDocument == FindDoc(documents, draggableId)
      destinationSiblings == getSiblingsThird(WithoutDoc(documents, draggableId), destinationParentId)
      insertionIndex == IF kind = "nest" THEN Len(destinationSiblings) ELSE destIndex
      virtualDoc == [movingDocument EXCEPT !.parentId = destinationParentId,
                                           !.order = insertionIndex]
      u1 == queueAll(Splice(destinationSiblings, insertionIndex, virtualDoc), 1,
                     destinationParentId, NoUpdates)
      u2 == IF destinationParentId # sourceParentId
            THEN queueAll(getSiblingsThird(WithoutDoc(documents, draggableId), sourceParentId),
                          1, Absent, u1)
            ELSE u1
  IN IF kind # "nest" /\ destinationParentId = sourceParentId /\ destIndex = sourceIndex
       THEN [outcome |-> "noop", updates |-> NoUpdates, expand |-> Null]
     ELSE [outcome |-> "accepted", updates |-> u2, expand |-> Null]

\* handleMove: the document becomes a child of parentId, ordered by the sibling count
handleMove(documents, id, parentId) ==
  LET siblingCount == Len(SelectSeq(documents, LAMBDA d : d.parentId = parentId /\ d.id # id))
  IN id :> [parentId |-> parentId, order |-> siblingCount]

(* ----------------- Sidebar (modal variant): handleMoveConfirm ----------- *)

\* handleMoveConfirm: the move target goes behind the siblings of the destination
handleMoveConfirm(documents, moveTarget, destinationParentId) ==
  LET siblings == WithoutDoc(sortDocumentsLib(SelectSeq(documents,
                               LAMBDA d : d.parentId = destinationParentId)), moveTarget)
  IN moveTarget :> [parentId |-> destinationParentId, order |-> Len(siblings)]

(* ------------------- services/documents.ts: deleteDocument -------------- *)

\* deleteOne({ _id }): the document is removed, nothing else changes
deleteDocument(store, id) == WithoutDoc(store, id)


(* --------------- Sidebar (native drag and drop): handleDrop ------------- *)

\* sortDocuments of the native variant: the same comparison as the current Sidebar
sortDocumentsNative(ds) == sortDocuments(ds)

RECURSIVE shiftSiblings(_, _, _, _, _)
\* siblings.forEach: a sibling at idx >= newOrder gets order idx + 1
shiftSiblings(siblings, n, draggedId, newOrder, updatesMap) ==
  IF n > Len(siblings) THEN updatesMap
  ELSE shiftSiblings(siblings, n + 1, draggedId, newOrder,
                     IF siblings[n].id # draggedId /\ n - 1 >= newOrder
                     THEN queueUpdate(updatesMap, siblings[n].id, [parentId |-> Absent, order |-> n])
                     ELSE updatesMap)

\* handleDrop(draggedId, targetId, position): one updateMutation.mutate per update
handleDrop(documents, draggedId, targetId, position) ==
  LET targetChildren == sortDocumentsNative(SelectSeq(documents, LAMBDA d : d.parentId = targetId))
      newParentId == ParentOf(documents, targetId)
      siblings == sortDocumentsNative(SelectSeq(documents, LAMBDA d : d.parentId = newParentId))
      targetIndex == IndexIn(siblings, targetId)
      newOrder == IF position = "before" THEN targetIndex ELSE targetIndex + 1
  IN IF draggedId \notin IdsOf(documents) \/ targetId \notin IdsOf(documents)
       THEN [outcome |-> "rejected", updates |-> NoUpdates]
     ELSE IF position = "inside"
       THEN [outcome |-> "accepted",
             updates |-> queueUpdate(NoUpdates, draggedId,
                                     [parentId |-> targetId, order |-> Len(targetChildren)])]
     ELSE [outcome |-> "accepted",
           updates |-> shiftSiblings(siblings, 1, draggedId, newOrder,
                         queueUpdate(NoUpdates, draggedId,
                                     [parentId |-> newParentId, order |-> newOrder]))]

(* ------------- Sidebar (per-sibling updates): handleDragEnd ------------- *)

\* the index of a sibling once the dragged document has left its place
adjustedIdx(idx, sameParent, sourceIndex, destIndex) ==
  IF sameParent /\ sourceIndex < destIndex /\ idx > sourceIndex /\ idx <= destIndex THEN idx - 1
  ELSE IF sameParent /\ sourceIndex > destIndex /\ idx >= destIndex /\ idx < sourceIndex THEN idx + 1
  ELSE idx

RECURSIVE adjustSiblings(_, _, _, _, _, _, _)
\* siblings.forEach: a sibling with adjustedIdx >= newOrder gets order adjustedIdx + 1
adjustSiblings(siblings, n, draggableId, sameParent, sourceIndex, destIndex, updatesMap) ==
  IF n > Len(siblings) THEN updatesMap
  ELSE LET adjusted == adjustedIdx(n - 1, sameParent, sourceIndex, destIndex)
       IN adjustSiblings(siblings, n + 1, draggableId, sameParent, sourceIndex, destIndex,
                         IF siblings[n].id # draggableId /\ adjusted >= destIndex
                         THEN queueUpdate(updatesMap, siblings[n].id,
                                          [parentId |-> Absent, order |-> adjusted + 1])
                         ELSE updatesMap)

\* handleDragEnd of the variant with nest-<id>, children-<id> and root droppables
handleDragEndPerSibling(documents, draggableId, sourceParentId, sourceIndex, kind, destParentId, destIndex) ==
  LET siblings == sortDocumentsLib(SelectSeq(documents, LAMBDA d : d.parentId = destParentId))
  IN IF kind # "nest" /\ destParentId = sourceParentId /\ destIndex = sourceIndex
       THEN [outcome |-> "noop", updates |-> NoUpdates]
     ELSE IF kind = "nest"
       THEN [outcome |-> "accepted",
             updates |-> queueUpdate(NoUpdates, draggableId, [parentId |-> destParentId, order |-> 0])]
     ELSE [outcome |-> "accepted",
           updates |-> adjustSiblings(siblings, 1, draggableId, destParentId = sourceParentId,
                         sourceIndex, destIndex,
                         queueUpdate(NoUpdates, draggableId,
                                     [parentId |-> destParentId, order |-> destIndex]))]

(* --------------- actions of the other Sidebar variants ------------------ *)

\* the documents for which the third and the modal variant render a SidebarItem
RenderedIds(ds) == buildDocumentTreeIds(ds, Null, Len(ds))

\* the state left by a handler of the third or modal variant
VariantEffect(op, kind, id, sourceParentId, sourceIndex, destParentId, destIndex, outcome, updates) ==
  /\ docs' = IF outcome = "accepted" THEN ApplyUpdates(docs, updates) ELSE docs
  /\ last' = [op |-> op, kind |-> kind, id |-> id,
              sourceParentId |-> sourceParentId, sourceIndex |-> sourceIndex,
              destParentId |-> destParentId, destIndex |-> destIndex,
              outcome |-> outcome, updates |-> updates, mutated |-> outcome = "accepted",
              before |-> docs, expandedBefore |-> expandedIds, repeat |-> FALSE]
  /\ UNCHANGED <<expandedIds, sidebar, nextId>>
  /\ UNCHANGED aux

\* handleDragEnd of the third variant for a drop on nest-<id>, children-<id> or root
DragEndThird(draggableId, kind, destinationParentId, destIndex) ==
  LET documents == getAllDocuments(docs)
      sourceParentId == ParentOf(documents, draggableId)
      sourceIndex == IndexIn(getSiblingsThird(documents, sourceParentId), draggableId)
      others == Len(getSiblingsThird(WithoutDoc(documents, draggableId), destinationParentId))
      r == handleDragEndThird(documents, draggableId, sourceParentId, sourceIndex,
                              kind, destinationParentId, destIndex)
  IN /\ sidebar = "third"
     /\ last.op = "none"
     /\ draggableId \in RenderedIds(documents)
     /\ CASE kind = "nest" -> destinationParentId \in RenderedIds(documents) /\ destIndex = 0
          [] kind = "children" -> /\ destinationParentId \in RenderedIds(documents)
                                  /\ Group(documents, destinationParentId) # {}
                                  /\ destIndex <= others
          [] OTHER -> destinationParentId = Null /\ destIndex <= others
     /\ VariantEffect("drag", kind, draggableId, sourceParentId, sourceIndex,
                      destinationParentId, destIndex, r.outcome, r.updates)


\* onDrop of a row of the native variant: the dragged row dropped on the row of
\* targetId, in its upper quarter, middle or lower quarter
HandleDrop(draggedId, targetId, position) ==
  LET documents == getAllDocuments(docs)
      r == handleDrop(documents, draggedId, targetId, position)
  IN /\ sidebar = "native"
     /\ last.op = "none"
     /\ draggedId \in RenderedIds(documents)
     /\ targetId \in RenderedIds(documents)
     /\ draggedId # targetId
     /\ VariantEffect("drag", position, draggedId, ParentOf(documents, draggedId), 0,
                      IF position = "inside" THEN targetId ELSE ParentOf(documents, targetId), 0,
                      r.outcome, r.updates)

\* handleDragEnd of the variant with per-sibling updates
DragEndPerSibling(draggableId, kind, destParentId, destIndex) ==
  LET documents == getAllDocuments(docs)
      sourceParentId == ParentOf(documents, draggableId)
      sourceIndex == IndexIn(sortDocumentsLib(SelectSeq(documents, LAMBDA d : d.parentId = sourceParentId)),
                             draggableId)
      others == Len(SelectSeq(documents, LAMBDA d : d.parentId = destParentId /\ d.id # draggableId))
      r == handleDragEndPerSibling(documents, draggableId, sourceParentId, sourceIndex,
                                   kind, destParentId, destIndex)
  IN /\ sidebar = "modal"
     /\ last.op = "none"
     /\ draggableId \in RenderedIds(documents)
     /\ CASE kind = "nest" -> destParentId \in RenderedIds(documents) /\ destIndex = 0
          [] kind = "children" -> /\ destParentId \in RenderedIds(documents)
                                  /\ Group(documents, destParentId) # {}
                                  /\ destIndex <= others
          [] OTHER -> destParentId = Null /\ destIndex <= others
     /\ VariantEffect("drag", kind, draggableId, sourceParentId, sourceIndex,
                      destParentId, destIndex, r.outcome, r.updates)

\* MoveDialog of the third variant: onMove(parentId) calls handleMove
MoveThird(id, parentId) ==
  LET documents == getAllDocuments(docs)
  IN /\ sidebar = "third"
     /\ last.op = "none"
     /\ id \in RenderedIds(documents)
     /\ ~getDescendantIds(id, documents).hang
     /\ parentId \in MoveDialogOptions(documents, id) \cup {Null}
     /\ VariantEffect("move", "dialog", id, ParentOf(documents, id), 0, parentId, 0,
                      "accepted", handleMove(documents, id, parentId))

\* MoveDocumentModal of the modal variant: submit calls handleMoveConfirm
MoveConfirm(id, destinationParentId) ==
  LET documents == getAllDocuments(docs)
  IN /\ sidebar = "modal"
     /\ last.op = "none"
     /\ id \in RenderedIds(documents)
     /\ ModalOptions(documents, id) # {}
     /\ destinationParentId \in ModalOptions(documents, id) \cup {Null}
     /\ VariantEffect("move", "dialog", id, ParentOf(documents, id), 0, destinationParentId, 0,
                      "accepted", handleMoveConfirm(documents, id, destinationParentId))

(* ------------------- create and delete (all variants) ------------------- *)

\* the next order taken from the number of siblings
nextOrder_SiblingCount(store, parentId) == Cardinality(Group(store, parentId))

\* createDocument: nextOrder is the highest order among the siblings plus one
nextOrder(store, parentId) ==
  LET numbered == {d \in Group(store, parentId) : d.order # NoOrder}
  IN IF numbered = {} THEN 0
     ELSE (CHOOSE o \in {d.order : d \in numbered} : \A d \in numbered : d.order <= o) + 1

createDocument(store, id, parentId) ==
  Append(store, [id |-> id, parentId |-> parentId, order |-> nextOrder(store, parentId), title |-> 1])

\* createMutation (root) and createChildMutation (child of a rendered document)
CreateDocument(parentId) ==
  LET documents == getAllDocuments(docs)
      stored == createDocument(docs, nextId, parentId)
  IN /\ last.op = "none"
     /\ matchSet(documents, searchQuery).isNull
     /\ nextId <= MaxCreate
     /\ parentId = Null \/ (sidebar = "current" /\ Rendered(documents, expandedIds, parentId))
     /\ docs' = stored
     /\ nextId' = nextId + 1
     /\ expandedIds' = IF sidebar = "current"
                       THEN ExpandRoots(ensureExpanded(expandedIds, parentId), getAllDocuments(stored))
                       ELSE expandedIds
     /\ last' = [op |-> "create", kind |-> "none", id |-> nextId,
                 sourceParentId |-> Null, sourceIndex |-> 0,
                 destParentId |-> parentId, destIndex |-> 0,
                 outcome |-> "accepted", updates |-> NoUpdates, mutated |-> TRUE,
                 before |-> docs, expandedBefore |-> expandedIds, repeat |-> FALSE]
     /\ UNCHANGED sidebar
     /\ UNCHANGED aux

\* deleteMutation / handleDelete: api.deleteDocument(id) after the confirm dialog
DeleteDocument(id) ==
  LET documents == getAllDocuments(docs)
      stored == deleteDocument(docs, id)
  IN /\ last.op = "none"
     /\ matchSet(documents, searchQuery).isNull
     /\ IF sidebar = "current" THEN Rendered(documents, expandedIds, id)
        ELSE id \in RenderedIds(documents)
     /\ docs' = stored
     /\ expandedIds' = IF sidebar = "current"
                       THEN ExpandRoots(expandedIds, getAllDocuments(stored)) ELSE expandedIds
     /\ last' = [op |-> "delete", kind |-> "none", id |-> id,
                 sourceParentId |-> ParentOf(documents, id), sourceIndex |-> 0,
                 destParentId |-> Null, destIndex |-> 0,
                 outcome |-> "accepted", updates |-> NoUpdates, mutated |-> TRUE,
                 before |-> docs, expandedBefore |-> expandedIds, repeat |-> FALSE]
     /\ UNCHANGED <<sidebar, nextId>>
     /\ UNCHANGED aux

\* the handler has returned: the sidebar waits for the next gesture
Idle ==
  /\ last.op # "none"
  /\ last.outcome # "hang"
  /\ last' = NoOp
  /\ UNCHANGED <<docs, expandedIds, sidebar, nextId>>
  /\ UNCHANGED aux


(* ------- services/documents.ts: createDocument, one await at a time ----- *)

\* insertOne(document) with the order computed before the await
insertDocument(store, id, parentId, order) ==
  Append(store, [id |-> id, parentId |-> parentId, order |-> order, title |-> 1])

\* POST /documents with title and authorId, without order: createDocument(data) starts
CreateStarts(parentId) ==
  /\ Len(creating) < MaxRequests
  /\ creating' = Append(creating, [parentId |-> parentId, pc |-> "find", nextOrder |-> Absent, id |-> Null])
  /\ UNCHANGED <<docs, expandedIds, sidebar, nextId, last, cache, mutations, searchQuery, fn, editor>>

\* await find({ parentId }).sort({ order: -1 }).limit(1).toArray(), then nextOrder
CreateFinds(k) ==
  /\ k \in 1..Len(creating)
  /\ creating[k].pc = "find"
  /\ creating' = [creating EXCEPT ![k].pc = "insert",
                                  ![k].nextOrder = nextOrder(docs, creating[k].parentId)]
  /\ UNCHANGED <<docs, expandedIds, sidebar, nextId, last, cache, mutations, searchQuery, fn, editor>>

\* await insertOne(document): the document is stored and returned
CreateInserts(k) ==
  /\ k \in 1..Len(creating)
  /\ creating[k].pc = "insert"
  /\ docs' = insertDocument(docs, nextId, creating[k].parentId, creating[k].nextOrder)
  /\ nextId' = nextId + 1
  /\ creating' = [creating EXCEPT ![k].pc = "done", ![k].id = nextId]
  /\ UNCHANGED <<expandedIds, sidebar, last, cache, mutations, searchQuery, fn, editor>>

(* -------- Sidebar.tsx (current): reorderMutation and its requests ------- *)

\* one reorderMutation.mutateAsync(updates) call: the updateDocument requests
\* that have not been answered, those the store has applied, those that failed
NewMutation(updates) ==
  [updates |-> updates, pending |-> DOMAIN updates, applied |-> {}, failed |-> {},
   refetched |-> FALSE]

\* Promise.all rejects as soon as one request fails (fetch rejects): onError
Rejected(mu) == mu.failed # {}

\* Promise.all has resolved: every request was answered and none failed
Resolved(mu) == mu.pending = {} /\ mu.failed = {}

\* handleDragEnd computed from the list the client holds (useQuery data) while
\* earlier mutations may still be in flight; kind is "into" or "list"
DragEndConcurrent(draggableId, kind, destParentId, destIndex) ==
  LET documents == cache
      sourceParentId == ParentOf(documents, draggableId)
      sourceIndex == IndexIn(getSiblings(documents, sourceParentId), draggableId)
      others == Len(WithoutDoc(getSiblings(documents, destParentId), draggableId))
      r == IF kind = "into"
           THEN handleDragEndInto(documents, draggableId, sourceParentId, destParentId)
           ELSE handleDragEndList(documents, draggableId, sourceParentId, sourceIndex,
                                  destParentId, destIndex)
  IN /\ sidebar = "current"
     /\ Len(mutations) < MaxMutations
     /\ Rendered(documents, expandedIds, draggableId)
     /\ IF kind = "into"
        THEN destIndex = 0 /\ Rendered(documents, expandedIds, destParentId)
        ELSE destIndex <= others /\ ListRendered(documents, expandedIds, destParentId)
     /\ r.outcome = "accepted"
     /\ mutations' = Append(mutations, NewMutation(r.updates))
     /\ expandedIds' = ensureExpanded(expandedIds, r.expand)
     /\ UNCHANGED <<docs, cache, sidebar, nextId, last, searchQuery, fn, creating, editor>>

\* the store handles one updateDocument request of mutation k
UpdateArrives(k, id) ==
  /\ k \in 1..Len(mutations)
  /\ id \in mutations[k].pending
  /\ docs' = ApplyUpdates(docs, id :> mutations[k].updates[id])
  /\ mutations' = [mutations EXCEPT ![k].pending = @ \ {id}, ![k].applied = @ \cup {id}]
  /\ UNCHANGED <<cache, expandedIds, sidebar, nextId, last, searchQuery, fn, creating, editor>>

\* one updateDocument request of mutation k fails (fetch rejects); the other
\* requests of the Promise.all are not cancelled
UpdateFails(k, id) ==
  /\ k \in 1..Len(mutations)
  /\ id \in mutations[k].pending
  /\ Cardinality({j \in 1..Len(mutations) : Rejected(mutations[j])}) < MaxFailures
  /\ ~Rejected(mutations[k])
  /\ mutations' = [mutations EXCEPT ![k].pending = @ \ {id}, ![k].failed = @ \cup {id}]
  /\ UNCHANGED <<docs, cache, expandedIds, sidebar, nextId, last, searchQuery, fn, creating, editor>>

\* onSuccess of mutation k: invalidateQueries(["documents"]) refetches the list
Refetch(k) ==
  /\ k \in 1..Len(mutations)
  /\ Resolved(mutations[k])
  /\ ~mutations[k].refetched
  /\ cache' = getAllDocuments(docs)
  /\ expandedIds' = ExpandRoots(expandedIds, getAllDocuments(docs))
  /\ mutations' = [mutations EXCEPT ![k].refetched = TRUE]
  /\ UNCHANGED <<docs, sidebar, nextId, last, searchQuery, fn, creating, editor>>

(* ------------- Sidebar.tsx (current): search box and toggle ------------- *)

\* onChange of the search box: setSearchQuery, then the effect on matchSet
SetSearchQuery(q) ==
  LET documents == getAllDocuments(docs)
      e == expansionEffect(documents, matchSet(documents, q), expandedIds)
  IN /\ sidebar = "current"
     /\ last.op = "none"
     /\ q # searchQuery
     /\ searchQuery' = q
     /\ expandedIds' = IF e.hang THEN expandedIds ELSE e.next
     /\ last' = [NoOp EXCEPT !.op = "search", !.outcome = IF e.hang THEN "hang" ELSE "accepted",
                             !.before = docs, !.expandedBefore = expandedIds]
     /\ UNCHANGED <<docs, sidebar, nextId, cache, mutations, fn, creating, editor>>

\* onToggleExpand of a displayed SidebarItem that has children
ToggleExpand(id) ==
  LET documents == getAllDocuments(docs)
  IN /\ sidebar = "current"
     /\ last.op = "none"
     /\ RenderedFiltered(documents, expandedIds, matchSet(documents, searchQuery), id)
     /\ Group(documents, id) # {}
     /\ expandedIds' = IF id \in expandedIds THEN expandedIds \ {id} ELSE expandedIds \cup {id}
     /\ last' = [NoOp EXCEPT !.op = "toggle", !.id = id, !.outcome = "accepted",
                             !.before = docs, !.expandedBefore = expandedIds]
     /\ UNCHANGED <<docs, sidebar, nextId, cache, mutations, searchQuery, fn, creating, editor>>


(* ------- the same functions on a heap of arrays, documents and nodes ---- *)

\* the array the caller passes as documents
DocumentsRef == 1

\* the caller's heap: the documents array and one object per document
HeapOf(ds) ==
  [arrays |-> << [i \in 1..Len(ds) |-> i] >>, objects |-> ds, nodes |-> <<>>]

\* [...], filter, map, []: a new array
newArray(h, elems) ==
  [heap |-> [h EXCEPT !.arrays = Append(@, elems)], ref |-> Len(h.arrays) + 1]

\* { ...doc, parentId }: a new document object
newObject(h, fields) ==
  [heap |-> [h EXCEPT !.objects = Append(@, fields)], ref |-> Len(h.objects) + 1]

\* { ...doc, children } or { document, children }: a new tree node
newNode(h, fields) ==
  [heap |-> [h EXCEPT !.nodes = Append(@, fields)], ref |-> Len(h.nodes) + 1]

\* array.push(ref)
pushRef(h, a, ref) == [h EXCEPT !.arrays[a] = Append(@, ref)]

\* the order a stable sort gives refs under the comparator Less
StableSort(refs, Less(_, _)) ==
  LET n == Len(refs)
      pos(i) == 1 + Cardinality({j \in 1..n :
                     \/ Less(refs[j], refs[i])
                     \/ (~Less(refs[i], refs[j]) /\ j < i)})
  IN [k \in 1..n |-> refs[CHOOSE i \in 1..n : pos(i) = k]]

\* Array.prototype.sort: sorts the array a itself
sortInPlace(h, a, Less(_, _)) == [h EXCEPT !.arrays[a] = StableSort(@, Less)]

\* documents.filter(keep): a new array with the references that pass
filterRefs(h, a, keep(_)) == newArray(h, SelectSeq(h.arrays[a], keep))

\* sortDocuments of Sidebar.tsx: [...docs].sort(...)
sortDocumentsHeap(h, a) ==
  LET copy == newArray(h, h.arrays[a])
  IN [heap |-> sortInPlace(copy.heap, copy.ref,
                           LAMBDA x, y : OrderKey(h.objects[x]) < OrderKey(h.objects[y])),
      ref |-> copy.ref]

\* the comparator of sortDocuments of lib/documentTree
LessLib(h, x, y) ==
  \/ OrderKeyLib(h.objects[x]) < OrderKeyLib(h.objects[y])
  \/ /\ OrderKeyLib(h.objects[x]) = OrderKeyLib(h.objects[y])
     /\ ~TitleLeq(h.objects[y], h.objects[x])

\* documents.sort(...) without the copy: the caller's array is sorted
sortDocumentsLibHeap_InPlace(h, a) ==
  [heap |-> sortInPlace(h, a, LAMBDA x, y : LessLib(h, x, y)), ref |-> a]

\* sortDocuments of lib/documentTree: [...documents].sort(...)
sortDocumentsLibHeap(h, a) ==
  LET copy == newArray(h, h.arrays[a])
  IN [heap |-> sortInPlace(copy.heap, copy.ref, LAMBDA x, y : LessLib(h, x, y)),
      ref |-> copy.ref]


\* the documents an array of the heap refers to
DocumentsOf(h, a) == [i \in 1..Len(h.arrays[a]) |-> h.objects[h.arrays[a][i]]]

\* map.set(key, node): a known key keeps its place
mapSet(map, key, node) ==
  IF \E i \in 1..Len(map) : map[i].key = key
  THEN [i \in 1..Len(map) |-> IF map[i].key = key THEN [key |-> key, node |-> node] ELSE map[i]]
  ELSE Append(map, [key |-> key, node |-> node])

mapHas(map, key) == \E i \in 1..Len(map) : map[i].key = key

mapGet(map, key) == map[CHOOSE i \in 1..Len(map) : map[i].key = key].node

RECURSIVE makeNodes(_, _, _, _)
\* sortedDocs.forEach: node = { ...doc, children: [] }; map.set(doc._id, node)
makeNodes(h, refs, i, map) ==
  IF i > Len(refs) THEN [heap |-> h, map |-> map]
  ELSE LET doc == h.objects[refs[i]]
           children == newArray(h, <<>>)
           node == newNode(children.heap,
                           [id |-> doc.id, parentId |-> doc.parentId, order |-> doc.order,
                            title |-> doc.title, children |-> children.ref])
       IN makeNodes(node.heap, refs, i + 1, mapSet(map, doc.id, node.ref))

RECURSIVE linkNodes(_, _, _, _)
\* map.forEach: the node is pushed to the children of its parent, or to roots
linkNodes(h, map, i, roots) ==
  IF i > Len(map) THEN h
  ELSE LET parentId == h.nodes[map[i].node].parentId
       IN IF parentId # Null /\ mapHas(map, parentId)
          THEN linkNodes(pushRef(h, h.nodes[mapGet(map, parentId)].children, map[i].node),
                         map, i + 1, roots)
          ELSE linkNodes(pushRef(h, roots, map[i].node), map, i + 1, roots)

RECURSIVE sortChildrenHeap(_, _)
RECURSIVE sortEachChild(_, _, _)
\* sortChildren(nodes): nodes.sort(...), then sortChildren(child.children) of each
sortChildrenHeap(h, a) ==
  sortEachChild(sortInPlace(h, a, LAMBDA x, y : OrderKey(h.nodes[x]) < OrderKey(h.nodes[y])), a, 1)

sortEachChild(h, a, i) ==
  IF i > Len(h.arrays[a]) THEN h
  ELSE sortEachChild(sortChildrenHeap(h, h.nodes[h.arrays[a][i]].children), a, i + 1)

\* buildDocumentTree (map-based) of lib/documentTree
buildDocumentTreeMapHeap(h, a) ==
  LET copy == newArray(h, h.arrays[a])
      sortedDocs == [heap |-> sortInPlace(copy.heap, copy.ref,
                                          LAMBDA x, y : OrderKey(h.objects[x]) < OrderKey(h.objects[y])),
                     ref |-> copy.ref]
      made == makeNodes(sortedDocs.heap, sortedDocs.heap.arrays[sortedDocs.ref], 1, <<>>)
      roots == newArray(made.heap, <<>>)
      linked == linkNodes(roots.heap, made.map, 1, roots.ref)
  IN [heap |-> sortChildrenHeap(linked, roots.ref), ref |-> roots.ref]

RECURSIVE buildDocumentTreeLibHeap(_, _, _, _)
RECURSIVE mapToNodes(_, _, _, _, _, _)
\* buildDocumentTree (recursive): sortDocuments(documents.filter(...)).map(...);
\* overflow when the recursion meets a document it is already below
buildDocumentTreeLibHeap(h, a, parentId, path) ==
  LET filtered == filterRefs(h, a, LAMBDA r : h.objects[r].parentId = parentId)
      sorted == sortDocumentsLibHeap(filtered.heap, filtered.ref)
      result == newArray(sorted.heap, <<>>)
  IN mapToNodes(result.heap, a, sorted.ref, 1, result.ref, path)

\* the callback of map: { document: doc, children: buildDocumentTree(documents, currentId) }
mapToNodes(h, a, sorted, i, result, path) ==
  IF i > Len(h.arrays[sorted]) THEN [heap |-> h, ref |-> result, overflow |-> FALSE]
  ELSE LET doc == h.arrays[sorted][i]
           currentId == h.objects[doc].id
       IN IF currentId \in path THEN [heap |-> h, ref |-> result, overflow |-> TRUE]
          ELSE LET children == buildDocumentTreeLibHeap(h, a, currentId, path \cup {currentId})
                   node == newNode(children.heap, [document |-> doc, children |-> children.ref])
               IN IF children.overflow THEN [heap |-> children.heap, ref |-> result, overflow |-> TRUE]
                  ELSE mapToNodes(pushRef(node.heap, result, node.ref), a, sorted, i + 1, result, path)

RECURSIVE flattenTreeMapHeap(_, _)
RECURSIVE flattenEach(_, _, _, _)
\* flattenTree (map-based): list.push(node); list.push(...flattenTree(node.children))
flattenTreeMapHeap(h, a) ==
  LET list == newArray(h, <<>>)
  IN flattenEach(list.heap, a, 1, list.ref)

flattenEach(h, a, i, list) ==
  IF i > Len(h.arrays[a]) THEN [heap |-> h, ref |-> list]
  ELSE LET node == h.arrays[a][i]
           below == flattenTreeMapHeap(pushRef(h, list, node), h.nodes[node].children)
       IN flattenEach([below.heap EXCEPT !.arrays[list] = @ \o below.heap.arrays[below.ref]],
                      a, i + 1, list)

RECURSIVE walkHeap(_, _, _)
RECURSIVE walkEach(_, _, _, _)
\* walk(node): result.push(node.document); node.children.forEach(walk)
walkHeap(h, node, result) ==
  walkEach(pushRef(h, result, h.nodes[node].document), h.nodes[node].children, 1, result)

walkEach(h, a, i, result) ==
  IF i > Len(h.arrays[a]) THEN h
  ELSE walkEach(walkHeap(h, h.arrays[a][i], result), a, i + 1, result)

\* flattenTree (recursive) of lib/documentTree
flattenTreeLibHeap(h, a) ==
  LET result == newArray(h, <<>>)
  IN [heap |-> walkEach(result.heap, a, 1, result.ref), ref |-> result.ref]

RECURSIVE collectDescendantIdsNode(_, _)
RECURSIVE collectEachChild(_, _, _)
\* collectDescendantIds(node): the ids below a node of the map-based forest
collectDescendantIdsNode(h, node) == collectEachChild(h, h.nodes[node].children, 1)

collectEachChild(h, a, i) ==
  IF i > Len(h.arrays[a]) THEN <<>>
  ELSE LET child == h.arrays[a][i]
       IN <<h.nodes[child].id>> \o collectDescendantIdsNode(h, child) \o collectEachChild(h, a, i + 1)


\* getSiblings of handleDragEnd: sortDocuments(documents.filter(...))
getSiblingsHeap(h, a, parentId) ==
  LET filtered == filterRefs(h, a, LAMBDA r : h.objects[r].parentId = parentId)
  IN sortDocumentsHeap(filtered.heap, filtered.ref)

\* getSiblings(parentId).filter((doc) => doc._id !== draggableId)
othersHeap(h, a, parentId, draggableId) ==
  LET siblings == getSiblingsHeap(h, a, parentId)
  IN filterRefs(siblings.heap, siblings.ref, LAMBDA r : siblings.heap.objects[r].id # draggableId)

\* array.splice(index, 0, ref)
spliceRef(h, a, index, ref) ==
  LET k == IF index > Len(h.arrays[a]) THEN Len(h.arrays[a]) ELSE index
  IN [h EXCEPT !.arrays[a] = SubSeq(@, 1, k) \o <<ref>> \o SubSeq(@, k + 1, Len(@))]

\* handleDragEnd of the current Sidebar, with the arrays and objects it creates
handleDragEndHeap(h, a, draggableId, kind, destParentId, destIndex) ==
  LET documents == DocumentsOf(h, a)
      sourceParentId == ParentOf(documents, draggableId)
      sourceIndex == IndexIn(getSiblings(documents, sourceParentId), draggableId)
      decided == IF kind = "into"
                 THEN handleDragEndInto(documents, draggableId, sourceParentId, destParentId)
                 ELSE handleDragEndList(documents, draggableId, sourceParentId, sourceIndex,
                                        destParentId, destIndex)
      movingDoc == h.arrays[a][CHOOSE i \in 1..Len(h.arrays[a]) :
                                  h.objects[h.arrays[a][i]].id = draggableId]
      destSiblings == othersHeap(h, a, destParentId, draggableId)
      moved == newObject(destSiblings.heap, [h.objects[movingDoc] EXCEPT !.parentId = destParentId])
      placed == IF kind = "into" THEN pushRef(moved.heap, destSiblings.ref, moved.ref)
                ELSE spliceRef(moved.heap, destSiblings.ref, destIndex, moved.ref)
      u1 == reindexSiblings(DocumentsOf(placed, destSiblings.ref), destParentId, draggableId, NoUpdates)
      sourceSiblings == othersHeap(placed, a, sourceParentId, draggableId)
      moves == sourceParentId # destParentId
  IN IF decided.outcome \in {"accepted", "empty"}
     THEN [heap |-> IF moves THEN sourceSiblings.heap ELSE placed,
           updates |-> IF moves
                       THEN reindexSiblings(DocumentsOf(sourceSiblings.heap, sourceSiblings.ref),
                                            sourceParentId, draggableId, u1)
                       ELSE u1]
     ELSE [heap |-> h, updates |-> NoUpdates]

(* ------------------- DocumentEdit.tsx: debounced saves ------------------ *)

\* updateMutation.isPending: the observer follows the mutation started last
isPending(e) == e.updates # <<>> /\ e.updates[Len(e.updates)].status = "pending"

\* saveStatus
saveStatus(e) ==
  IF e.isSaving \/ isPending(e) THEN "Saving..." ELSE "All changes saved"

\* setTimeout(..., 3000) at the current time; typedIn is the document on screen
startTimer(e) == [set |-> TRUE, typedIn |-> e.id, at |-> e.clock + 1]

\* both timers run 3000 ms: a timer expires before every timer set after it
expiresFirst(timer, other) == timer.set /\ (other.set => timer.at < other.at)

\* updateMutation.mutate(data): mutationFn is the one of the latest render, so
\* api.updateDocument(id!, data) goes to the document on screen now
mutate(e, field, timer) ==
  Append(e.updates, [target |-> e.id, typedIn |-> timer.typedIn, field |-> field,
                     status |-> "pending"])

\* handleTitleChange: setIsSaving(true), the title timer is replaced
TitleChange ==
  /\ editor.id # Null
  /\ editor.clock < MaxEdits
  /\ editor' = [editor EXCEPT !.isSaving = TRUE, !.titleTimer = startTimer(editor),
                              !.clock = @ + 1]
  /\ UNCHANGED <<docs, expandedIds, sidebar, nextId, last, cache, mutations, searchQuery, fn, creating>>

\* handleContentChange: setIsSaving(true), the content timer is replaced
ContentChange ==
  /\ editor.id # Null
  /\ editor.clock < MaxEdits
  /\ editor' = [editor EXCEPT !.isSaving = TRUE, !.contentTimer = startTimer(editor),
                              !.clock = @ + 1]
  /\ UNCHANGED <<docs, expandedIds, sidebar, nextId, last, cache, mutations, searchQuery, fn, creating>>

\* the title timer expires: updateMutation.mutate({ title: newTitle })
TitleTimerFires ==
  /\ expiresFirst(editor.titleTimer, editor.contentTimer)
  /\ editor' = [editor EXCEPT !.updates = mutate(editor, "title", editor.titleTimer),
                              !.titleTimer = NoTimer]
  /\ UNCHANGED <<docs, expandedIds, sidebar, nextId, last, cache, mutations, searchQuery, fn, creating>>

\* the content timer expires: updateMutation.mutate({ content: newContent })
ContentTimerFires ==
  /\ expiresFirst(editor.contentTimer, editor.titleTimer)
  /\ editor' = [editor EXCEPT !.updates = mutate(editor, "content", editor.contentTimer),
                              !.contentTimer = NoTimer]
  /\ UNCHANGED <<docs, expandedIds, sidebar, nextId, last, cache, mutations, searchQuery, fn, creating>>

\* PATCH /documents/:id answers: the field is written to document target, then
\* onSuccess runs setIsSaving(false)
SaveSucceeds(k) ==
  /\ k \in 1..Len(editor.updates)
  /\ editor.updates[k].status = "pending"
  /\ editor' = [editor EXCEPT !.updates[k].status = "success", !.isSaving = FALSE]
  /\ UNCHANGED <<docs, expandedIds, sidebar, nextId, last, cache, mutations, searchQuery, fn, creating>>

\* the request fails: updateMutation has no onError
SaveFails(k) ==
  /\ k \in 1..Len(editor.updates)
  /\ editor.updates[k].status = "pending"
  /\ editor' = [editor EXCEPT !.updates[k].status = "error"]
  /\ UNCHANGED <<docs, expandedIds, sidebar, nextId, last, cache, mutations, searchQuery, fn, creating>>

\* /document/A -> /document/B: the Route element stays mounted, useParams gives
\* the new id, the state and the timers stay
Navigate(to) ==
  /\ editor.id # Null
  /\ to \in IdsOf(docs) \ {editor.id}
  /\ editor.navigations < MaxNavigations
  /\ editor' = [editor EXCEPT !.id = to, !.navigations = @ + 1]
  /\ UNCHANGED <<docs, expandedIds, sidebar, nextId, last, cache, mutations, searchQuery, fn, creating>>

(* --------------- move dialogs: the destinations on offer ---------------- *)

\* MoveDocumentModal.tsx: the <select> holds "Root (no parent)" and the options;
\* selectedParent starts as document.parentId and handleSubmit sends it
ModalSelectable(ds, documentId) ==
  {Null, ParentOf(ds, documentId)} \cup ModalOptions(ds, documentId)

\* modals/MoveDocumentModal.tsx: the document and its descendants are disabled
disabledIds(ds, documentId) == collectDescendantIds(ds, documentId) \cup {documentId}

\* modals/MoveDocumentModal.tsx: "Top level" and the enabled buttons of the
\* recursive tree; selectedParentId starts as initialParentId
ModalsSelectable(ds, documentId) ==
  {Null, ParentOf(ds, documentId)}
    \cup (buildDocumentTreeIds(ds, Null, Len(ds)) \ disabledIds(ds, documentId))

\* collectDescendantIds(node) of the map-based utility
collectDescendantIdsMap(node) ==
  LET list == flattenTreeMap(node.children)
  IN {list[i].id : i \in 1..Len(list)}

\* MoveDocumentDialog.tsx: the document and, when the tree holds its node, the
\* ids below that node
blockedIds(ds, currentId) ==
  LET lookup == flattenTreeMap(buildDocumentTreeMap(ds))
      target == {i \in 1..Len(lookup) : lookup[i].id = currentId}
  IN {currentId} \cup UNION {collectDescendantIdsMap(lookup[i]) : i \in target}

\* MoveDocumentDialog.tsx: "Workspace root" and the TreeRow buttons that are not
\* blocked; selectedParent starts as the parentId of the document
DialogSelectable(ds, currentId) ==
  LET rows == flattenTreeMap(buildDocumentTreeMap(ds))
  IN {Null, ParentOf(ds, currentId)}
       \cup ({rows[i].id : i \in 1..Len(rows)} \ blockedIds(ds, currentId))

\* MoveDialog of the third variant: "Top level" and one button per option
ThirdSelectable(ds, currentDocumentId) ==
  {Null} \cup MoveDialogOptions(ds, currentDocumentId)

\* the destinations that the dialog can hand to onMove
Selectable(dialog, ds, documentId) ==
  CASE dialog = "MoveDocumentModal" -> ModalSelectable(ds, documentId)
    [] dialog = "modals/MoveDocumentModal" -> ModalsSelectable(ds, documentId)
    [] dialog = "MoveDocumentDialog" -> DialogSelectable(ds, documentId)
    [] OTHER -> ThirdSelectable(ds, documentId)

MoveDialogs == {"MoveDocumentModal", "modals/MoveDocumentModal", "MoveDocumentDialog", "MoveDialog"}

(* ----------------------- calls of the tree utilities -------------------- *)

\* the call fn has been made on the collection docs
Call(op, args, result) ==
  /\ fn = NoCall
  /\ fn' = [op |-> op, args |-> args, result |-> result]
  /\ UNCHANGED <<docs, expandedIds, sidebar, nextId, last, cache, mutations, searchQuery, creating, editor>>

\* handleConfirmExport: the reading order of the export
ExportOrder ==
  /\ fn = NoCall
  /\ Call("exportOrder", <<>>, exportOrder(docs))

\* buildDocumentTree(documents) of the map-based utility, and its flattening
BuildTreeMap ==
  /\ fn = NoCall
  /\ Call("buildDocumentTreeMap", <<>>,
          [forest |-> buildDocumentTreeMap(docs), order |-> exportOrder(docs)])

\* buildDocumentTree(documents, rootParentId) of the recursive utility
BuildTree(rootParentId) ==
  /\ fn = NoCall
  /\ Call("buildDocumentTree", <<rootParentId>>,
          buildDocumentTreeLib(docs, rootParentId,
                               IF rootParentId = Null THEN {} ELSE {rootParentId}))

\* collectDescendantIds(documents, rootId) of lib/documentTree ("lib") and of
\* ExportPdfModal ("export"), getDescendantIds(rootId, documents) ("sidebar")
CollectDescendants(variant, rootId) ==
  /\ fn = NoCall
  /\ Call("collectDescendantIds", <<variant, rootId>>,
          CASE variant = "lib" ->
                 [terminates |-> TRUE, ids |-> collectDescendantIds(docs, rootId)]
            [] variant = "export" ->
                 [terminates |-> ~collectDescendantIdsExport(docs, rootId).overflow,
                  ids |-> collectDescendantIdsExport(docs, rootId).ids]
            [] OTHER ->
                 [terminates |-> ~getDescendantIds(rootId, docs).hang,
                  ids |-> getDescendantIds(rootId, docs).ids])

\* isDescendant(documents, destParentId, draggableId) as handleDragEnd calls it
IsDescendant(destParentId, draggableId) ==
  /\ fn = NoCall
  /\ Call("isDescendant", <<destParentId, draggableId>>,
          isDescendant(docs, destParentId, draggableId))


\* sortDocuments(documents) of lib/documentTree on the caller's array
SortDocumentsOnHeap ==
  LET h == HeapOf(getAllDocuments(docs))
  IN Call("heap:sortDocuments", <<h>>, sortDocumentsLibHeap(h, DocumentsRef))

\* buildDocumentTree(documents), map-based or recursive
BuildTreeOnHeap(variant) ==
  LET h == HeapOf(getAllDocuments(docs))
  IN Call("heap:buildDocumentTree", <<h, variant>>,
          IF variant = "map" THEN buildDocumentTreeMapHeap(h, DocumentsRef)
          ELSE buildDocumentTreeLibHeap(h, DocumentsRef, Null, {}))

\* flattenTree(nodes) on the forest buildDocumentTree has returned
FlattenTreeOnHeap(variant) ==
  LET h == HeapOf(getAllDocuments(docs))
      built == IF variant = "map" THEN buildDocumentTreeMapHeap(h, DocumentsRef)
               ELSE buildDocumentTreeLibHeap(h, DocumentsRef, Null, {})
  IN Call("heap:flattenTree", <<built.heap, variant>>,
          IF variant = "map" THEN flattenTreeMapHeap(built.heap, built.ref)
          ELSE flattenTreeLibHeap(built.heap, built.ref))

\* collectDescendantIds: of a root node of the map-based forest, or
\* collectDescendantIds(documents, rootId) of the recursive utilities
CollectDescendantsOnHeap(variant, rootId) ==
  LET h == HeapOf(getAllDocuments(docs))
      built == buildDocumentTreeMapHeap(h, DocumentsRef)
      roots == built.heap.arrays[built.ref]
  IN /\ fn = NoCall
     /\ variant = "map" => \E i \in 1..Len(roots) : built.heap.nodes[roots[i]].id = rootId
     /\ IF variant = "map"
        THEN Call("heap:collectDescendantIds", <<built.heap, variant, rootId>>,
                  [heap |-> built.heap,
                   ids |-> collectDescendantIdsNode(built.heap,
                             roots[CHOOSE i \in 1..Len(roots) : built.heap.nodes[roots[i]].id = rootId])])
        ELSE Call("heap:collectDescendantIds", <<h, variant, rootId>>,
                  [heap |-> h, ids |-> collectDescendantIds(getAllDocuments(docs), rootId)])

\* handleDragEnd of the current Sidebar on the documents array of the query
HandleDragEndOnHeap(draggableId, kind, destParentId, destIndex) ==
  LET h == HeapOf(getAllDocuments(docs))
  IN /\ kind = "into" => (destParentId # Null /\ destIndex = 0)
     /\ Call("heap:handleDragEnd", <<h, draggableId, kind, destParentId, destIndex>>,
             handleDragEndHeap(h, DocumentsRef, draggableId, kind, destParentId, destIndex))


\* the positions the documents of the collection can take in the array
ArrayOrders == {p \in [Ids -> Ids] : \A i, j \in Ids : p[i] = p[j] => i = j}

\* buildDocumentTree called on every array that holds the documents of the
\* collection: the forests it returns
BuildPermuted(variant) ==
  LET arrays == {[i \in 1..Len(docs) |-> docs[perm[i]]] : perm \in ArrayOrders}
  IN Call("permuted:buildDocumentTree", <<variant>>,
          IF variant = "map" THEN {buildDocumentTreeMap(array) : array \in arrays}
          ELSE {buildDocumentTreeLib(array, Null, {}) : array \in arrays})

\* a move dialog is opened for a document of the collection
OpenMoveDialog(dialog, documentId) ==
  /\ fn = NoCall
  /\ documentId \in IdsOf(docs)
  /\ Call("moveDialog", <<dialog, documentId>>, Selectable(dialog, docs, documentId))

(* --------------------------- specifications ----------------------------- *)

InitOrders == 0..MaxOrder

\* the collections of MaxDocs documents (array position i holds id i)
Collections ==
  {ds \in [Ids -> [id : Ids, parentId : Ids \cup {Null}, order : InitOrders, title : {1}]] :
     \A i \in Ids : ds[i].id = i}

Init ==
  /\ docs \in {ds \in Collections : Acyclic(ds)}
  /\ sidebar = "current"
  /\ expandedIds = ExpandRoots({}, getAllDocuments(docs))
  /\ nextId = MaxDocs + 1
  /\ last = NoOp
  /\ AuxInit

Next ==
  \/ \E m \in Ids, p \in Ids : DragEndInto(m, p)
  \/ \E m \in Ids, p \in Ids \cup {Null}, i \in 0..MaxDocs : DragEndList(m, p, i)
  \/ RepeatDragEnd
  \/ Idle

Spec == Init /\ [][Next]_vars

\* the documents a history creates
HistIds == 1..MaxCreate

\* histories of the current Sidebar that start from the empty collection
InitHistory ==
  /\ docs = <<>>
  /\ sidebar = "current"
  /\ expandedIds = {}
  /\ nextId = 1
  /\ last = NoOp
  /\ AuxInit

NextHistory ==
  \/ \E p \in HistIds \cup {Null} : CreateDocument(p)
  \/ \E id \in HistIds : DeleteDocument(id)
  \/ \E m \in HistIds, p \in HistIds : DragEndInto(m, p)
  \/ \E m \in HistIds, p \in HistIds \cup {Null}, i \in 0..MaxCreate : DragEndList(m, p, i)
  \/ RepeatDragEnd
  \/ Idle

SpecHistory == InitHistory /\ [][NextHistory]_vars

\* titles of an initial collection: all equal, or falling with the array position
TitleChoices == {[i \in Ids |-> 1], [i \in Ids |-> MaxDocs + 1 - i]}

CollectionsTitled ==
  {[i \in Ids |-> [ds[i] EXCEPT !.title = t[i]]] : ds \in {c \in Collections : Acyclic(c)},
                                                  t \in TitleChoices}

\* histories of the third and of the modal Sidebar from the empty collection
InitDialog ==
  /\ docs = <<>>
  /\ sidebar \in {"third", "modal"}
  /\ expandedIds = {}
  /\ nextId = 1
  /\ last = NoOp
  /\ AuxInit

NextDialog ==
  \/ CreateDocument(Null)
  \/ \E x \in HistIds, p \in HistIds \cup {Null} : MoveThird(x, p)
  \/ \E x \in HistIds, p \in HistIds \cup {Null} : MoveConfirm(x, p)
  \/ \E id \in HistIds : DeleteDocument(id)
  \/ Idle

SpecDialog == InitDialog /\ [][NextDialog]_vars

\* the two Sidebar variants with a nest droppable that appends
InitNest ==
  /\ sidebar \in {"current", "third"}
  /\ docs \in IF sidebar = "current" THEN {c \in Collections : Acyclic(c)} ELSE CollectionsTitled
  /\ expandedIds = IF sidebar = "current" THEN ExpandRoots({}, getAllDocuments(docs)) ELSE {}
  /\ nextId = MaxDocs + 1
  /\ last = NoOp
  /\ AuxInit

NextNest ==
  \/ \E m \in Ids, p \in Ids : DragEndInto(m, p)
  \/ \E m \in Ids, k \in {"nest", "children", "root"}, p \in Ids \cup {Null}, i \in 0..MaxDocs :
       DragEndThird(m, k, p, i)
  \/ Idle

SpecNest == InitNest /\ [][NextNest]_vars

\* the collections createDocument builds: documents 1..MaxDocs created in
\* this sequence under an earlier document or at root, orders counted per parent
CreatedCollections ==
  {[i \in Ids |-> [id |-> i, parentId |-> par[i],
                   order |-> Cardinality({j \in 1..(i-1) : par[j] = par[i]}), title |-> 1]] :
     par \in {f \in [Ids -> Ids \cup {Null}] : \A i \in Ids : f[i] < i}}

\* the current Sidebar with its requests in flight
InitConcurrent ==
  /\ docs \in CreatedCollections
  /\ cache = getAllDocuments(docs)
  /\ sidebar = "current"
  /\ expandedIds = ExpandRoots({}, getAllDocuments(docs))
  /\ nextId = MaxDocs + 1
  /\ last = NoOp
  /\ mutations = <<>>
  /\ searchQuery = NoQuery
  /\ fn = NoCall
  /\ creating = <<>>
  /\ editor = NoEditor

NextConcurrent ==
  \/ \E m \in Ids, kind \in {"into", "list"}, p \in Ids \cup {Null}, i \in 0..MaxDocs :
       DragEndConcurrent(m, kind, p, i)
  \/ \E k \in 1..MaxMutations, id \in Ids : UpdateArrives(k, id)
  \/ \E k \in 1..MaxMutations, id \in Ids : UpdateFails(k, id)
  \/ \E k \in 1..MaxMutations : Refetch(k)

SpecConcurrent == InitConcurrent /\ [][NextConcurrent]_vars

\* the flat collections given to the tree utilities: position i holds id i, a
\* parentId is null, a document of the collection or an id that names none
TreeParents == Ids \cup {Null, GoneId}

TreeInputs(orders) ==
  {[i \in Ids |-> [id |-> i, parentId |-> par[i], order |-> ord[i], title |-> 1]] :
     par \in [Ids -> TreeParents], ord \in [Ids -> orders]}

\* the state of a page that holds the collection and has called no utility
InitUtility(inputs) ==
  /\ docs \in inputs
  /\ sidebar = "none"
  /\ expandedIds = {}
  /\ nextId = MaxDocs + 1
  /\ last = NoOp
  /\ AuxInit

\* build and flatten over the collections without parentId cycles
InitRoundTrip == InitUtility({ds \in TreeInputs(InitOrders \cup {NoOrder}) : Acyclic(ds)})

NextRoundTrip == ExportOrder

SpecRoundTrip == InitRoundTrip /\ [][NextRoundTrip]_vars

\* the tree utilities over every collection, malformed ones included
InitTree == InitUtility(TreeInputs(InitOrders))

NextTree ==
  \/ BuildTreeMap
  \/ \E r \in TreeParents : BuildTree(r)
  \/ \E v \in {"lib", "export", "sidebar"}, r \in Ids : CollectDescendants(v, r)
  \/ \E p \in Ids, m \in Ids : IsDescendant(p, m)

SpecTree == InitTree /\ [][NextTree]_vars

\* the texts typed into the search box
SearchQueries == {NoQuery, <<" ">>, <<"A">>, <<"B", " ">>, <<"u">>}

\* the titles of the searched collections: "", "a" and "b"
SearchTitles == {0, 1, 3}

\* the current Sidebar showing a created collection, with search and toggle
InitSearch ==
  /\ docs \in {[i \in Ids |-> [ds[i] EXCEPT !.title = t[i]]] :
                 ds \in CreatedCollections, t \in [Ids -> SearchTitles]}
  /\ sidebar = "current"
  /\ expandedIds = ExpandRoots({}, getAllDocuments(docs))
  /\ nextId = MaxDocs + 1
  /\ last = NoOp
  /\ AuxInit

NextSearch ==
  \/ \E q \in SearchQueries : SetSearchQuery(q)
  \/ \E id \in Ids : ToggleExpand(id)
  \/ Idle

SpecSearch == InitSearch /\ [][NextSearch]_vars

\* the current Sidebar with list drops made while a query filters the lists
NextSearchDrop ==
  \/ \E q \in SearchQueries : SetSearchQuery(q)
  \/ \E m \in Ids, p \in Ids \cup {Null}, i \in 0..MaxDocs : DropListFiltered(m, p, i)
  \/ Idle

SpecSearchDrop == InitSearch /\ [][NextSearchDrop]_vars

\* histories of the current Sidebar from the empty collection, with search
NextSearchHistory ==
  \/ \E p \in HistIds \cup {Null} : CreateDocument(p)
  \/ \E m \in HistIds, p \in HistIds : DragEndInto(m, p)
  \/ \E m \in HistIds, p \in HistIds \cup {Null}, i \in 0..MaxCreate : DragEndList(m, p, i)
  \/ \E q \in SearchQueries : SetSearchQuery(q)
  \/ Idle

SpecSearchHistory == InitHistory /\ [][NextSearchHistory]_vars


\* the utilities and handleDragEnd called on the caller's documents array:
\* every forest shape (a parent has a smaller id than its children), in arrays
\* that are sorted by order or not
HeapInputs(orders) ==
  {[i \in Ids |-> [id |-> i, parentId |-> par[i], order |-> ord[i], title |-> 1]] :
     par \in {p \in [Ids -> Ids \cup {Null}] : \A i \in Ids : p[i] = Null \/ p[i] < i},
     ord \in [Ids -> orders]}

InitHeap == InitUtility(HeapInputs(InitOrders))

NextHeap ==
  \/ SortDocumentsOnHeap
  \/ \E v \in {"map", "lib"} : BuildTreeOnHeap(v)
  \/ \E v \in {"map", "lib"} : FlattenTreeOnHeap(v)
  \/ \E v \in {"map", "lib"}, r \in Ids : CollectDescendantsOnHeap(v, r)
  \/ \E m \in Ids, k \in {"into", "list"}, p \in Ids \cup {Null}, i \in 0..MaxDocs :
       HandleDragEndOnHeap(m, k, p, i)

SpecHeap == InitHeap /\ [][NextHeap]_vars


\* the documents buildDocumentTree is given: every forest shape (a parent has
\* a smaller id than its children), a dangling parent (of document 1), equal
\* and missing orders, equal and different titles (documents 1 and 2 take
\* every title, the others the title 1)
PermutedInputs(titles) ==
  {[i \in Ids |-> [id |-> i, parentId |-> par[i], order |-> ord[i], title |-> t[i]]] :
     par \in {p \in [Ids -> TreeParents] :
               \A i \in Ids : p[i] = Null \/ (i = 1 /\ p[i] = GoneId) \/ (p[i] # GoneId /\ p[i] < i)},
     ord \in [Ids -> InitOrders \cup {NoOrder}],
     t \in {f \in [Ids -> titles] : \A i \in Ids : i > 2 => f[i] = 1}}

InitPermuted == InitUtility(PermutedInputs({1, 2}))

NextPermuted == \E v \in {"map", "lib"} : BuildPermuted(v)

SpecPermuted == InitPermuted /\ [][NextPermuted]_vars


\* the three other Sidebar variants showing a created collection
InitVariants ==
  /\ docs \in CreatedCollections
  /\ sidebar \in {"native", "modal", "third"}
  /\ expandedIds = {}
  /\ nextId = MaxDocs + 1
  /\ last = NoOp
  /\ AuxInit

NextVariants ==
  \/ \E m \in Ids, t \in Ids, pos \in {"inside", "before", "after"} : HandleDrop(m, t, pos)
  \/ \E m \in Ids, k \in {"nest", "children", "root"}, p \in Ids \cup {Null}, i \in 0..MaxDocs :
       DragEndPerSibling(m, k, p, i)
  \/ \E m \in Ids, k \in {"nest", "children", "root"}, p \in Ids \cup {Null}, i \in 0..MaxDocs :
       DragEndThird(m, k, p, i)
  \/ Idle

SpecVariants == InitVariants /\ [][NextVariants]_vars


\* the API server with a created collection, taking createDocument calls
InitCreating ==
  /\ docs \in CreatedCollections
  /\ sidebar = "none"
  /\ expandedIds = {}
  /\ nextId = MaxDocs + 1
  /\ last = NoOp
  /\ AuxInit

NextCreating ==
  \/ \E p \in Ids \cup {Null} : CreateStarts(p)
  \/ \E k \in 1..MaxRequests : CreateFinds(k)
  \/ \E k \in 1..MaxRequests : CreateInserts(k)

SpecCreating == InitCreating /\ [][NextCreating]_vars

\* the move dialogs over the collections without parentId cycles
InitMoveDialog == InitUtility({ds \in TreeInputs(InitOrders) : Acyclic(ds)})

NextMoveDialog == \E dialog \in MoveDialogs, id \in Ids : OpenMoveDialog(dialog, id)

SpecMoveDialog == InitMoveDialog /\ [][NextMoveDialog]_vars

\* DocumentEdit mounted on a document of a created collection
InitEditor ==
  /\ docs \in CreatedCollections
  /\ sidebar = "none"
  /\ expandedIds = {}
  /\ nextId = MaxDocs + 1
  /\ last = NoOp
  /\ cache = <<>>
  /\ mutations = <<>>
  /\ searchQuery = NoQuery
  /\ fn = NoCall
  /\ creating = <<>>
  /\ editor \in {[NoEditor EXCEPT !.id = id] : id \in Ids}

NextEditor ==
  \/ TitleChange
  \/ ContentChange
  \/ TitleTimerFires
  \/ ContentTimerFires
  \/ \E k \in 1..MaxEdits : SaveSucceeds(k)
  \/ \E k \in 1..MaxEdits : SaveFails(k)
  \/ \E to \in Ids : Navigate(to)

SpecEditor == InitEditor /\ [][NextEditor]_vars

(* ------------------------------ claims ---------------------------------- *)

\* the collection the Sidebar holds after the refetch
Documents == getAllDocuments(docs)

\* the collection the last handler call computed from
Before == getAllDocuments(last.before)

\* the order values of a sibling group are exactly 0..n-1, each used once
Contiguous(g) ==
  /\ {d.order : d \in g} = 0..(Cardinality(g) - 1)
  /\ \A d, e \in g : d.order = e.order => d.id = e.id

\* ids of the sibling group of p, the dragged document left out
OthersOf(ds, p, id) == {d.id : d \in Group(ds, p)} \ {id}

\* the ids of the children of p in the sequence in which they are displayed
DisplayOrder(ds, p, id) ==
  LET sibs == WithoutDoc(getSiblings(ds, p), id)
  IN [i \in 1..Len(sibs) |-> sibs[i].id]

LastDrag == last.op = "drag"

Accepted == last.outcome = "accepted"

\* C1: after any sequence of handleDragEnd calls on an acyclic collection the
\* parentId graph is acyclic: no document's id appears in its own parentId chain.
C1_ForestInvariant == Acyclic(Documents)

\* C2: a drop of M whose destination parent is a transitive descendant of M
\* (nest drop or list drop) queues no update, calls no mutation and leaves
\* every parentId, every order and expandedIds as they were.
C2_CycleRejection ==
  (/\ LastDrag
   /\ Acyclic(Before)
   /\ last.destParentId # Null
   /\ last.id \in ParentChain(Before, last.destParentId))
  => (/\ last.updates = NoUpdates
      /\ ~last.mutated
      /\ docs = last.before
      /\ expandedIds = last.expandedBefore)

\* C2 witness: a list drop and a nest drop into a grandchild of the dragged
\* document have been handled
C2_Witness ==
  /\ LastDrag
  /\ Acyclic(Before)
  /\ last.kind = "list"
  /\ last.destParentId # Null
  /\ last.id \in ParentChain(Before, last.destParentId)
  /\ ParentOf(Before, last.destParentId) # last.id
  /\ last.updates = NoUpdates

\* C3: a drop of M whose destination parent is M itself (into:M, or list:M at
\* any index) is rejected with zero updates.
C3_SelfParentRejected ==
  (LastDrag /\ last.destParentId = last.id)
  => (last.updates = NoUpdates /\ ~last.mutated /\ docs = last.before)

\* C4: after an accepted move the destination sibling group and, when the
\* parent changed, the source sibling group have the orders 0..n-1.
C4_Contiguity ==
  (LastDrag /\ Accepted)
  => (/\ Contiguous(Group(Documents, last.destParentId))
      /\ (last.sourceParentId # last.destParentId
          => Contiguous(Group(Documents, last.sourceParentId))))

\* C4 witness: an accepted move to another parent out of and into groups
\* whose orders were not contiguous
C4_Witness ==
  /\ LastDrag /\ Accepted
  /\ last.sourceParentId # last.destParentId
  /\ OthersOf(Before, last.sourceParentId, last.id) # {}
  /\ OthersOf(Before, last.destParentId, last.id) # {}
  /\ ~Contiguous(Group(Before, last.destParentId))
  /\ ~Contiguous(Group(Before, last.sourceParentId) \ {FindDoc(Before, last.id)})
  /\ \E i \in DOMAIN last.updates : i # last.id

\* C7: requesting an accepted move a second time, after its updates have been
\* merged into the collection, produces an empty update set.
C7_ReorderIdempotent ==
  (LastDrag /\ last.repeat) => last.updates = NoUpdates

\* C8: the update set of an accepted move holds the dragged document with its
\* new parentId and order, and exactly the other documents of the destination
\* and source groups whose order differs from their new index.
C8_MinimalPatch ==
  (LastDrag /\ Accepted)
  => LET touched == OthersOf(Before, last.destParentId, last.id)
                      \cup OthersOf(Before, last.sourceParentId, last.id)
         newIndex(x) == IndexIn(getSiblings(Documents, ParentOf(Documents, x)), x)
     IN /\ last.id \in DOMAIN last.updates
        /\ last.updates[last.id].parentId = last.destParentId
        /\ last.updates[last.id].order = newIndex(last.id)
        /\ \A x \in IdsOf(Before) \ {last.id} :
             /\ x \in DOMAIN last.updates
                  <=> (x \in touched /\ FindDoc(Before, x).order # newIndex(x))
             /\ x \in DOMAIN last.updates
                  => (/\ last.updates[x].parentId = Absent
                      /\ last.updates[x].order = newIndex(x))
        /\ DisplayOrder(Documents, last.destParentId, last.id)
             = DisplayOrder(Before, last.destParentId, last.id)
        /\ (last.kind = "list"
            => IndexIn(getSiblings(Documents, last.destParentId), last.id) = last.destIndex)

\* the collection A(root,0), B(root,1), C(child of A,0) of the example
ExampleCollection ==
  <<[id |-> 1, parentId |-> Null, order |-> 0, title |-> 1],
    [id |-> 2, parentId |-> Null, order |-> 1, title |-> 1],
    [id |-> 3, parentId |-> 1, order |-> 0, title |-> 1]>>

\* C8 (example): dropping B at index 0 under A yields exactly
\* B -> {parentId A, order 0} and C -> {order 1}
C8_Example ==
  (/\ LastDrag /\ last.before = ExampleCollection
   /\ last.kind = "list" /\ last.id = 2 /\ last.destParentId = 1 /\ last.destIndex = 0)
  => last.updates = (2 :> [parentId |-> 1, order |-> 0] @@ 3 :> [parentId |-> Absent, order |-> 1])

\* C8: the general statement together with the example
C8_MinimalPatchSet == C8_MinimalPatch /\ C8_Example

\* C8 witness: an accepted move to another parent that renumbers one sibling
\* and leaves another sibling without an update
C8_Witness ==
  /\ LastDrag /\ Accepted
  /\ last.sourceParentId # last.destParentId
  /\ \E x \in IdsOf(Before) \ {last.id} : x \in DOMAIN last.updates
  /\ \E x \in (OthersOf(Before, last.destParentId, last.id)
                 \cup OthersOf(Before, last.sourceParentId, last.id)) :
        x \notin DOMAIN last.updates

\* C5: in every state of a history of createDocument, deleteDocument and
\* accepted drag moves every sibling group has the orders 0..n-1.
C5_OrderInvariant ==
  \A p \in {Null} \cup {d.parentId : d \in Group(Documents, Null)} \cup
           {Documents[i].parentId : i \in 1..Len(Documents)} :
     Contiguous(Group(Documents, p))

\* C6: after a document with children is deleted through the third Sidebar
\* no remaining document has a parentId that names no document.
C6_NoDanglingParents ==
  (last.op = "delete" /\ sidebar = "third" /\ Group(Before, last.id) # {})
  => \A i \in 1..Len(Documents) :
       Documents[i].parentId # Null => Documents[i].parentId \in IdsOf(Documents)

\* the children of p in the sequence the mounted Sidebar displays them
Displayed(ds, p) ==
  LET sibs == IF sidebar = "current" THEN getSiblings(ds, p) ELSE getSiblingsThird(ds, p)
  IN [i \in 1..Len(sibs) |-> sibs[i].id]

\* a sequence of ids with id left out
Skip(ids, id) == SelectSeq(ids, LAMBDA x : x # id)

\* C9: after an accepted nest drop of M onto P (into:P, nest-P) M is the last
\* child of P, its order is the number of P's other children, and P's earlier
\* children keep their relative order.
C9_NestAppends ==
  (LastDrag /\ Accepted /\ last.kind \in {"into", "nest"})
  => LET after == Displayed(Documents, last.destParentId)
     IN /\ ParentOf(Documents, last.id) = last.destParentId
        /\ FindDoc(Documents, last.id).order
             = Cardinality(OthersOf(Documents, last.destParentId, last.id))
        /\ after[Len(after)] = last.id
        /\ Skip(after, last.id) = Skip(Displayed(Before, last.destParentId), last.id)

\* C9 witness: a document from another parent has been nested onto a document
\* that had two children already
C9_Witness ==
  /\ LastDrag /\ Accepted /\ last.kind \in {"into", "nest"}
  /\ last.sourceParentId # last.destParentId
  /\ Cardinality(OthersOf(Before, last.destParentId, last.id)) >= 2
  /\ ParentOf(Documents, last.id) = last.destParentId

\* C10: after a move through the dialog X is ordered strictly after every
\* other child of P, no two children of P share an order, and X's former
\* sibling group has the orders 0..n-1.
C10_DialogMove ==
  (last.op = "move")
  => LET x == FindDoc(Documents, last.id)
         children == Group(Documents, last.destParentId)
     IN /\ \A d \in children : d.id # x.id => d.order < x.order
        /\ \A d, e \in children : d.order = e.order => d.id = e.id
        /\ Contiguous(Group(Documents, last.sourceParentId))

\* no two documents of one sibling group of ds share an order value
UniqueOrders(ds) ==
  \A i, j \in 1..Len(ds) :
    (ds[i].parentId = ds[j].parentId /\ ds[i].order = ds[j].order) => i = j

\* the mutations whose updates the client's list does not show yet
Unrefetched == {k \in 1..Len(mutations) : ~mutations[k].refetched}

NoRequestFailed == \A k \in 1..Len(mutations) : mutations[k].failed = {}

\* between the start of a reorder mutation and the refetch no other reorder
\* has been computed
OneReorderAtATime == Cardinality(Unrefetched) <= 1

\* when every reorder is persisted and refetched the sibling orders are unique
UniqueAfterReorders == (Unrefetched = {}) => UniqueOrders(docs)

\* C11: while no request fails, at most one reorder mutation is between its
\* start and its refetch (no handleDragEnd computes from a list that predates
\* the updates of an earlier one), and after the drags are persisted and
\* refetched every sibling group has unique orders.
C11_SerializedReorders ==
  NoRequestFailed => (OneReorderAtATime /\ UniqueAfterReorders)

\* C12: when every request of an accepted drag has been answered, either every
\* update of its update set has been applied to the store or none has.
C12_AllOrNothing ==
  \A k \in 1..Len(mutations) :
    mutations[k].pending = {}
      => (mutations[k].applied = DOMAIN mutations[k].updates \/ mutations[k].applied = {})

\* position of id in a sequence of ids (0 when it is not there)
PositionOf(ids, id) ==
  IF \E i \in 1..Len(ids) : ids[i] = id THEN CHOOSE i \in 1..Len(ids) : ids[i] = id ELSE 0

\* number of occurrences of id in a sequence of ids
Occurrences(ids, id) == Cardinality({i \in 1..Len(ids) : ids[i] = id})

\* C13: for a collection without parentId cycles and with distinct ids
\* (dangling parentIds allowed) flattenTree(buildDocumentTree(documents)) holds
\* every document exactly once, and every document whose parent exists comes
\* after that parent.
C13_BuildFlattenRoundTrip ==
  (fn.op = "exportOrder" /\ Acyclic(docs))
  => (/\ \A id \in IdsOf(docs) : Occurrences(fn.result, id) = 1
      /\ Len(fn.result) = Len(docs)
      /\ \A id \in IdsOf(docs) :
           ParentOf(docs, id) \in IdsOf(docs)
             => PositionOf(fn.result, ParentOf(docs, id)) < PositionOf(fn.result, id))

\* C13 witness: the order was computed for a collection with a document below
\* a dangling parent and a document two levels below another
C13_Witness ==
  /\ fn.op = "exportOrder"
  /\ Len(fn.result) = MaxDocs
  /\ \E a, b \in IdsOf(docs) :
       /\ ParentOf(docs, a) = GoneId
       /\ ParentOf(docs, b) = a
       /\ PositionOf(fn.result, a) < PositionOf(fn.result, b)

\* the documents whose parentId names no document of the collection
DanglingIds(ds) == {id \in IdsOf(ds) : ParentOf(ds, id) \notin IdsOf(ds) \cup {Null}}

RECURSIVE Down(_, _)
\* the ids closed under "is a child of a member"
Down(ds, reached) ==
  LET more == reached \cup {ds[i].id : i \in {j \in 1..Len(ds) : ds[j].parentId \in reached}}
  IN IF more = reached THEN reached ELSE Down(ds, more)

\* the ids reached from r by following parentId links downward
DownReach(ds, r) == Down(ds, {ds[i].id : i \in {j \in 1..Len(ds) : ds[j].parentId = r}})

\* the ids of a flattened forest of the recursive utility
FlatIds(nodes) ==
  LET list == flattenTreeLib(nodes)
  IN [i \in 1..Len(list) |-> list[i].id]

\* C14: buildDocumentTree(documents, null) of the recursive utility shows every
\* document whose parentId names an absent id as a root-level node, together
\* with its subtree.
C14_DanglingParentIsRoot ==
  (fn.op = "buildDocumentTree" /\ fn.args = <<Null>>)
  => \A id \in DanglingIds(docs) :
       /\ \E i \in 1..Len(fn.result.nodes) : fn.result.nodes[i].document.id = id
       /\ \A x \in DownReach(docs, id) : Occurrences(FlatIds(fn.result.nodes), x) = 1

\* a.parentId = b and b.parentId = a
TwoCycle(ds, a, b) == a # b /\ ParentOf(ds, a) = b /\ ParentOf(ds, b) = a

\* C15: on a collection with a two-document parentId cycle the map-based
\* buildDocumentTree returns a forest that holds each of the two documents
\* exactly once, and the recursive buildDocumentTree terminates for every
\* collection and every rootParentId.
C15_CycleSafeBuild ==
  /\ fn.op = "buildDocumentTreeMap"
       => \A a, b \in IdsOf(docs) :
            TwoCycle(docs, a, b) => Occurrences(fn.result.order, a) = 1
  /\ fn.op = "buildDocumentTree" => ~fn.result.overflow

\* C16: collectDescendantIds(documents, r) terminates, returns exactly the ids
\* reachable from r by following parentId links downward, and never returns r.
C16_DescendantSet ==
  fn.op = "collectDescendantIds"
  => (/\ fn.result.terminates
      /\ fn.result.ids = DownReach(docs, fn.args[2])
      /\ fn.args[2] \notin fn.result.ids)

\* C17: isDescendant(docs, destParentId, draggedId) returns for every
\* collection, also when the parentId links above destParentId form a cycle
\* that does not pass through the dragged document.
C17_IsDescendantTerminates ==
  fn.op = "isDescendant" => fn.result \in {"true", "false"}

\* the documents whose title contains the query
TitleMatchIds(ds, q) ==
  {ds[i].id : i \in {j \in 1..Len(ds) : titleMatches(ds[j], normalizedQuery(q))}}

\* the matchSet of the rendered Sidebar
CurrentMatchSet == matchSet(Documents, searchQuery)

\* root -> mid -> leaf, and only the title of leaf contains the query
OnlyLeafMatches(root, mid, leaf) ==
  /\ ParentOf(Documents, leaf) = mid
  /\ ParentOf(Documents, mid) = root
  /\ ParentOf(Documents, root) = Null
  /\ TitleMatchIds(Documents, searchQuery) = {leaf}

\* C18: with a query, the match set computed by the Sidebar holds exactly the
\* documents whose title contains the query and no ancestor that does not
\* match; for a chain root -> mid -> leaf in which only leaf matches, the match
\* set is {leaf} and root and mid are forced open.
C18_MatchesApartFromAncestors ==
  ~CurrentMatchSet.isNull
  => (/\ CurrentMatchSet.ids = TitleMatchIds(Documents, searchQuery)
      /\ \A root, mid, leaf \in IdsOf(Documents) :
           (last.op = "search" /\ OnlyLeafMatches(root, mid, leaf))
             => (CurrentMatchSet.ids = {leaf} /\ {root, mid} \subseteq expandedIds))

\* C19: the upward walk that adds the ancestors of each match to expandedIds
\* finishes, also when a match lies on or below a parentId cycle.
C19_ExpansionWalkTerminates ==
  last.op = "search" => last.outcome # "hang"

\* C20: while a non-empty query is active, every ancestor of every matching
\* document is in expandedIds and every matching document is rendered, also
\* after clicks on expand/collapse toggles.
C20_MatchesStayVisible ==
  ~CurrentMatchSet.isNull
  => \A m \in TitleMatchIds(Documents, searchQuery) :
       /\ ParentChain(Documents, m) \subseteq expandedIds
       /\ RenderedFiltered(Documents, expandedIds, CurrentMatchSet, m)

\* the query holds nothing but white space
Blank(q) == \A i \in 1..Len(q) : q[i] = " "

\* C21: an empty or whitespace-only query gives matchSet = null, the root list
\* is rendered and every sibling list shows all its documents; a query with
\* other characters that no title contains gives an empty, non-null set, no
\* list and (unless the new-page form is open) the message "No pages found";
\* a query that some title contains gives the list and never that message.
C21_NoFilterSentinel ==
  /\ Blank(searchQuery)
       => /\ CurrentMatchSet.isNull
          /\ \A isCreating \in BOOLEAN :
               LET body == sidebarBody(Documents, CurrentMatchSet, isCreating)
               IN body.message # "No pages found" /\ (Documents # <<>> => body.list)
          /\ \A p \in IdsOf(Documents) \cup {Null} :
               visibleSiblings(Documents, CurrentMatchSet, p) = getSiblings(Documents, p)
  /\ (~Blank(searchQuery) /\ TitleMatchIds(Documents, searchQuery) = {})
       => /\ CurrentMatchSet = [isNull |-> FALSE, ids |-> {}]
          /\ sidebarBody(Documents, CurrentMatchSet, FALSE) = [list |-> FALSE, message |-> "No pages found"]
          /\ ~sidebarBody(Documents, CurrentMatchSet, TRUE).list
  /\ (~Blank(searchQuery) /\ TitleMatchIds(Documents, searchQuery) # {})
       => \A isCreating \in BOOLEAN :
            sidebarBody(Documents, CurrentMatchSet, isCreating) = [list |-> TRUE, message |-> "none"]

\* a whitespace-only query has been typed over a collection that has documents
C21_Witness ==
  /\ last.op = "search"
  /\ searchQuery = <<" ">>
  /\ Documents # <<>>
  /\ CurrentMatchSet.isNull

\* the arrays, documents and nodes of the heap before are in the heap after, unchanged
HeapKept(before, after) ==
  /\ SubSeq(after.arrays, 1, Len(before.arrays)) = before.arrays
  /\ SubSeq(after.objects, 1, Len(before.objects)) = before.objects
  /\ SubSeq(after.nodes, 1, Len(before.nodes)) = before.nodes

\* what the value-level definition of the called function returns
ValueResult ==
  LET h == fn.args[1]
      documents == DocumentsOf(h, DocumentsRef)
      after == fn.result.heap
  IN CASE fn.op = "heap:sortDocuments" ->
            DocumentsOf(after, fn.result.ref) = sortDocumentsLib(documents)
       [] fn.op = "heap:handleDragEnd" ->
            LET sourceParentId == ParentOf(documents, fn.args[2])
                sourceIndex == IndexIn(getSiblings(documents, sourceParentId), fn.args[2])
            IN fn.result.updates =
                 (IF fn.args[3] = "into"
                  THEN handleDragEndInto(documents, fn.args[2], sourceParentId, fn.args[4])
                  ELSE handleDragEndList(documents, fn.args[2], sourceParentId, sourceIndex,
                                         fn.args[4], fn.args[5])).updates
       [] fn.op = "heap:flattenTree" /\ fn.args[2] = "lib" ->
            DocumentsOf(after, fn.result.ref) = flattenTreeLib(buildDocumentTreeLib(documents, Null, {}).nodes)
       [] OTHER -> TRUE

\* C22: handleDragEnd, sortDocuments, buildDocumentTree, collectDescendantIds
\* and flattenTree leave the array they are given, and every document, node
\* and array that existed before the call, as they were; the array each of
\* them returns did not exist before the call.
C22_InputsReadOnly ==
  fn.op \in {"heap:sortDocuments", "heap:buildDocumentTree", "heap:flattenTree",
             "heap:collectDescendantIds", "heap:handleDragEnd"}
  => /\ HeapKept(fn.args[1], fn.result.heap)
     /\ fn.op \in {"heap:sortDocuments", "heap:buildDocumentTree", "heap:flattenTree"}
          => fn.result.ref > Len(fn.args[1].arrays)
     /\ ValueResult

\* sortDocuments has been called on an array that is not in sorted order
C22_Witness ==
  /\ fn.op = "heap:sortDocuments"
  /\ fn.result.heap.arrays[fn.result.ref] # fn.args[1].arrays[DocumentsRef]

\* the sibling list a document is put in: the children of its parent, or the
\* roots (map-based: also when the parent is not in the collection)
ListOf(variant, ds, d) ==
  IF variant = "map" /\ isRootMap(ds, d) THEN Null ELSE d.parentId

\* two documents of one sibling list that the comparator of the sort finds equal
SiblingTie(variant, ds) ==
  \E i, j \in 1..Len(ds) :
    /\ i # j
    /\ ListOf(variant, ds, ds[i]) = ListOf(variant, ds, ds[j])
    /\ OrderKeyLib(ds[i]) = OrderKeyLib(ds[j])
    /\ variant = "lib" => ds[i].title = ds[j].title

DropBelowItself ==
  /\ last.op = "drag"
  /\ sidebar \in {"native", "modal", "third"}
  /\ last.destParentId # Null
  /\ \/ last.destParentId = last.id
     \/ last.id \in ParentChain(getAllDocuments(last.before), last.destParentId)

\* C24: in the native variant, the variant with per-sibling updates and the
\* third variant, a drop that would make a document a child of itself or of one
\* of its descendants issues no update and leaves the collection unchanged
C24_VariantsRejectCycles ==
  DropBelowItself => (~last.mutated /\ docs = last.before)

\* C25: from the empty collection, and so from every collection these
\* histories reach (sibling orders unique, with or without gaps), every
\* createDocument without an explicit order, deleteDocument and accepted drag
\* move of the current Sidebar, taken one at a time with all updates applied,
\* leaves no two documents with the same parentId and the same order.
C25_UniqueSiblingOrders == UniqueOrders(docs)

\* a document has been created in a sibling group whose orders had a gap
C25_Witness ==
  /\ last.op = "create"
  /\ \E d \in Group(last.before, last.destParentId) :
       d.order >= Cardinality(Group(last.before, last.destParentId))
  /\ Cardinality(Group(docs, last.destParentId)) >= 2

\* the orders the siblings under parentId had before the calls started
OrdersBefore(parentId) == {d.order : d \in {e \in Group(docs, parentId) : e.id \in Ids}}

\* C26: for every interleaving of two createDocument calls with the same
\* parentId and no explicit order, the two new documents get different order
\* values, each greater than every order that existed before.
C26_ConcurrentCreateDistinct ==
  \A j, k \in 1..Len(creating) :
    (j < k /\ creating[j].pc = "done" /\ creating[k].pc = "done"
       /\ creating[j].parentId = creating[k].parentId)
    => /\ FindDoc(docs, creating[j].id).order # FindDoc(docs, creating[k].id).order
       /\ \A o \in OrdersBefore(creating[j].parentId) :
            FindDoc(docs, creating[j].id).order > o /\ FindDoc(docs, creating[k].id).order > o

\* the documents that are neither x nor below x
NonDescendants(ds, x) == {d \in IdsOf(ds) : d # x /\ x \notin ParentChain(ds, d)}

\* the collection after document x was given the parent p
Reparented(ds, x, p) ==
  [i \in 1..Len(ds) |-> IF ds[i].id = x THEN [ds[i] EXCEPT !.parentId = p] ELSE ds[i]]

\* C27: in an acyclic collection every move dialog offers, for a document X,
\* exactly the root and the documents that are neither X nor a descendant of X,
\* and no destination on offer gives a parentId cycle
C27_DialogOffersNonDescendants ==
  fn.op = "moveDialog" =>
    /\ fn.result = {Null} \cup NonDescendants(docs, fn.args[2])
    /\ \A p \in fn.result : Acyclic(Reparented(docs, fn.args[2], p))

\* the rows of the destination list after the last drop, under the same query
VisibleAfterDrop ==
  LET documents == getAllDocuments(docs)
  IN visibleList(documents, matchSet(documents, searchQuery), last.destParentId)

\* the last call was a list drop made while the query hid a sibling of the
\* destination list, and handleDragEnd went through to its updates
FilteredListDrop ==
  LET before == getAllDocuments(last.before)
      ms == matchSet(before, searchQuery)
  IN /\ last.op = "drag" /\ last.kind = "list"
     /\ last.outcome \in {"accepted", "empty"}
     /\ ~ms.isNull
     /\ \E d \in Group(before, last.destParentId) : d.id \notin ms.ids

\* C28: a list drop at displayed index i under a query that hides siblings
\* leaves the dragged document at position i among the visible siblings of
\* the destination parent
C28_FilteredDropAtDisplayedIndex ==
  FilteredListDrop =>
    /\ Len(VisibleAfterDrop) > last.destIndex
    /\ VisibleAfterDrop[last.destIndex + 1].id = last.id

\* C29: every update request sent by DocumentEdit carries the id of the
\* document that was on screen when the edit was typed
C29_SaveGoesToEditedDocument ==
  \A k \in 1..Len(editor.updates) : editor.updates[k].target = editor.updates[k].typedIn

\* an edit waits in a debounce timer or an update request is in flight
Unsaved(e) ==
  \/ e.titleTimer.set
  \/ e.contentTimer.set
  \/ \E k \in 1..Len(e.updates) : e.updates[k].status = "pending"

\* C30: "All changes saved" is shown only when no edit waits in a debounce
\* timer and no update request is in flight
C30_SavedMeansNothingPending ==
  (editor.id # Null /\ saveStatus(editor) = "All changes saved") => ~Unsaved(editor)

====
